---- MODULE Spec2Model ----
(***************************************************************************)
(* Model of the flat-file record store of genlearn-ai                      *)
(* (backend/app/database/csv_handler.py): the per-file reentrant locks,    *)
(* the temp-file-then-rename writer, the CRUD operations of CSVHandler and *)
(* generate_id.  Text is modelled as a sequence of one-character strings,  *)
(* a table file as its header and its rows of text cells, a DataFrame as   *)
(* its columns and its rows of typed cells.  The callers of the store that *)
(* the properties speak of (AnswerEvaluator._update_session_score) and the *)
(* utilities RateLimiter (utils/rate_limiter.py) and retry_async           *)
(* (utils/retry.py) are modelled beside it.                                *)
(***************************************************************************)
EXTENDS Integers, Sequences, FiniteSets, TLC

VARIABLES
    file,       \* table name -> content of the table file (NoFile when absent)
    lockOwner,  \* table name -> thread holding the file's RLock (NoThread when free)
    lockCount,  \* table name -> recursion level of the file's RLock
    pc,         \* thread -> position in the call it executes
    op,         \* thread -> the call being executed (name, handler, arguments)
    df,         \* thread -> the DataFrame local of the call
    tmp,        \* thread -> content of the call's temporary file (NoFile when none)
    pend,       \* thread -> pending exception and value to return
    hist,       \* thread -> history of the call (file at lock time, at release, ...)
    crashed,    \* TRUE once the process has been killed
    ncalls,     \* number of calls issued
    issued,     \* thread -> number of calls the thread has made
    held,       \* thread -> the id a caller got from generate_id and not yet inserted
    log,        \* the files at the start, and the calls in the order in which they
                \* acquired their table lock
    fileLocks,  \* _file_locks: path -> the RLock object registered for it (NoLock when none)
    lockManager,\* thread inside "with _lock_manager" (NoThread when free)
    lockObjs,   \* number of RLock objects created so far
    returned,   \* the results of get_file_lock: caller, path, lock object, and
                \* whether a default-file handler or a table name asked
    clock,      \* what time.time() returns, in whole seconds
    requests,   \* RateLimiter._requests: client id -> list of timestamps
    limLock,    \* thread inside "with self._lock" of the rate limiter (NoThread when free)
    lim,        \* thread -> position and locals of its is_allowed or reset call
    served,     \* the is_allowed calls that have returned, in the order of their return
    retry       \* position, loop variables and history of a retry_async call

vars == <<file, lockOwner, lockCount, pc, op, df, tmp, pend, hist,
          crashed, ncalls, issued, held, log,
          fileLocks, lockManager, lockObjs, returned,
          clock, requests, limLock, lim, served, retry>>

\* the state of the utilities beside the record store
Utils == <<clock, requests, limLock, lim, served, retry>>

----------------------------------------------------------------------------
(* Text                                                                     *)

Digits == <<"0", "1", "2", "3", "4", "5", "6", "7", "8", "9">>

DigitChars == {Digits[i] : i \in 1..10}

DigitVal(c) == (CHOOSE i \in 1..10 : Digits[i] = c) - 1

\* str.strip() / the tokenizer's skipping of blanks around a number
RECURSIVE LStrip(_)
LStrip(s) == IF s # <<>> /\ Head(s) = " " THEN LStrip(Tail(s)) ELSE s

RECURSIVE RStrip(_)
RStrip(s) ==
    IF s # <<>> /\ s[Len(s)] = " " THEN RStrip(SubSeq(s, 1, Len(s) - 1)) ELSE s

Strip(s) == RStrip(LStrip(s))

\* value of a sequence of decimal digits (underscores skipped)
RECURSIVE DigitsVal(_)
DigitsVal(s) ==
    IF s = <<>> THEN 0
    ELSE IF s[Len(s)] = "_" THEN DigitsVal(SubSeq(s, 1, Len(s) - 1))
    ELSE 10 * DigitsVal(SubSeq(s, 1, Len(s) - 1)) + DigitVal(s[Len(s)])

\* decimal digits of a natural number
RECURSIVE DecStr(_)
DecStr(n) == IF n < 10 THEN <<Digits[n + 1]>> ELSE DecStr(n \div 10) \o <<Digits[(n % 10) + 1]>>

\* str(n) of a Python int
IntStr(n) == IF n < 0 THEN <<"-">> \o DecStr(-n) ELSE DecStr(n)

StartsWith(s, p) == Len(s) >= Len(p) /\ SubSeq(s, 1, Len(p)) = p

\* the digits of a Python int literal: decimal digits with single underscores
\* between digits
PyDigitsOk(b) ==
    /\ b # <<>>
    /\ \A i \in 1..Len(b) :
          \/ b[i] \in DigitChars
          \/ /\ b[i] = "_"
             /\ 1 < i /\ i < Len(b)
             /\ b[i - 1] \in DigitChars /\ b[i + 1] \in DigitChars

\* a numeral without its sign
Unsigned(t) == IF t # <<>> /\ Head(t) \in {"-", "+"} THEN Tail(t) ELSE t

SignedVal(t) == IF Head(t) = "-" THEN -DigitsVal(Tail(t)) ELSE DigitsVal(Unsigned(t))

\* Python int(s) on text: blanks stripped, optional sign, digits
PyIntOk(s) == PyDigitsOk(Unsigned(Strip(s)))

PyInt(s) == SignedVal(Strip(s))

\* f"{n:03d}": sign, then digits, zero-filled to a minimum width of 3
RECURSIVE Zeros(_)
Zeros(k) == IF k <= 0 THEN <<>> ELSE <<"0">> \o Zeros(k - 1)

FmtWidth == 3

ZeroFill(sign, digs) == sign \o Zeros(FmtWidth - Len(sign) - Len(digs)) \o digs

Fmt03d(n) == IF n < 0 THEN ZeroFill(<<"-">>, DecStr(-n)) ELSE ZeroFill(<<>>, DecStr(n))

----------------------------------------------------------------------------
(* Cells.  A cell of a table file is text; a cell of a DataFrame is typed. *)

Txt_nan   == <<"n", "a", "n">>
Txt_NaN   == <<"N", "a", "N">>
Txt_None  == <<"N", "o", "n", "e">>
Txt_NA    == <<"N", "A">>
Txt_null  == <<"n", "u", "l", "l">>
Txt_True  == <<"T", "r", "u", "e">>
Txt_False == <<"F", "a", "l", "s", "e">>
Txt_true  == <<"t", "r", "u", "e">>
Txt_false == <<"f", "a", "l", "s", "e">>
Txt_TRUE  == <<"T", "R", "U", "E">>
Txt_FALSE == <<"F", "A", "L", "S", "E">>

NaN      == [k |-> "nan"]
PyNone   == [k |-> "none"]
Str(s)   == [k |-> "str", s |-> s]
IntV(n)  == [k |-> "int", n |-> n]
FltV(n)  == [k |-> "float", n |-> n]
BoolV(b) == [k |-> "bool", b |-> b]

IsNull(v) == v.k \in {"nan", "none"}

\* str(v), which is also what Series.astype(str) gives for each cell
PyStr(v) ==
    CASE v.k = "str"   -> v.s
      [] v.k = "int"   -> IntStr(v.n)
      [] v.k = "float" -> IntStr(v.n) \o <<".", "0">>
      [] v.k = "bool"  -> IF v.b THEN Txt_True ELSE Txt_False
      [] v.k = "nan"   -> Txt_nan
      [] v.k = "none"  -> Txt_None

\* the text DataFrame.to_csv writes for a cell (missing values as the empty field)
CsvCell(v) == IF IsNull(v) THEN <<>> ELSE PyStr(v)

\* the strings read_csv takes for a missing value
NaStrings == {<<>>, Txt_nan, Txt_NaN, Txt_None, Txt_NA, Txt_null}

TrueStrings  == {Txt_True, Txt_true, Txt_TRUE}
FalseStrings == {Txt_False, Txt_false, Txt_FALSE}

\* read_csv's integer field: blanks skipped, optional sign, digits only
AllDigits(b) == b # <<>> /\ \A i \in 1..Len(b) : b[i] \in DigitChars

CsvIntOk(s) == AllDigits(Unsigned(Strip(s)))

\* read_csv's float field, for the integer-valued floats to_csv writes ("3.0"):
\* position of the first ".", 0 when there is none
DotPos(t) ==
    IF \A j \in 1..Len(t) : t[j] # "." THEN 0
    ELSE CHOOSE i \in 1..Len(t) : t[i] = "." /\ \A j \in 1..(i - 1) : t[j] # "."

FloatOkAt(t, d) ==
    /\ d > 1
    /\ AllDigits(Unsigned(SubSeq(t, 1, d - 1)))
    /\ \A j \in (d + 1)..Len(t) : t[j] = "0"

FloatOkStripped(t) == FloatOkAt(t, DotPos(t))

CsvFloatOk(s) == FloatOkStripped(Strip(s))

NumAt(t, d) == IF d = 0 THEN SignedVal(t) ELSE SignedVal(SubSeq(t, 1, d - 1))

NumStripped(t) == NumAt(t, DotPos(t))

CsvNum(s) == NumStripped(Strip(s))

\* how read_csv reads one field on its own
FieldClass(s) ==
    IF s \in NaStrings THEN "na"
    ELSE IF CsvIntOk(s) THEN "int"
    ELSE IF CsvFloatOk(s) THEN "float"
    ELSE IF s \in TrueStrings \cup FalseStrings THEN "bool"
    ELSE "str"

\* the dtype read_csv infers for a column from the classes of its fields
ColType(cls) ==
    IF \A i \in 1..Len(cls) : cls[i] = "int" THEN "int"
    ELSE IF \A i \in 1..Len(cls) : cls[i] \in {"int", "float", "na"} THEN "float"
    ELSE IF \A i \in 1..Len(cls) : cls[i] \in {"bool", "na"} THEN "bool"
    ELSE "object"

TypedCell(s, ty) ==
    IF s \in NaStrings THEN NaN
    ELSE CASE ty = "int"   -> IntV(CsvNum(s))
           [] ty = "float" -> FltV(CsvNum(s))
           [] ty = "bool"  -> BoolV(s \in TrueStrings)
           [] OTHER        -> Str(s)

TypedCol(cells, ty) == [i \in 1..Len(cells) |-> TypedCell(cells[i], ty)]

\* a column of text fields read with the dtype read_csv infers for it
InferCol(cells) == TypedCol(cells, ColType([i \in 1..Len(cells) |-> FieldClass(cells[i])]))

\* a file of the data directory: absent, a CSV text, or part of a write
NoFile  == [kind |-> "nofile"]
Partial == [kind |-> "partial"]
Csv(cols, rows) == [kind |-> "csv", cols |-> cols, rows |-> rows]

EmptyDF == [cols |-> <<>>, rows |-> <<>>]

ColIdx(cols, c) == CHOOSE i \in 1..Len(cols) : cols[i] = c

HasCol(d, c) == \E i \in 1..Len(d.cols) : d.cols[i] = c

Column(d, c) == [r \in 1..Len(d.rows) |-> d.rows[r][ColIdx(d.cols, c)]]

\* pd.read_csv(file_path) on an existing file raises on a truncated file and
\* on a file without columns (EmptyDataError)
ReadOk(f) == f.kind = "csv" /\ f.cols # <<>>

\* pd.read_csv(file_path): every column gets its inferred dtype
ReadCsv(f) ==
    LET typed == [i \in 1..Len(f.cols) |->
                     InferCol([r \in 1..Len(f.rows) |-> f.rows[r][i]])]
    IN  [cols |-> f.cols,
         rows |-> [r \in 1..Len(f.rows) |->
                      [i \in 1..Len(f.cols) |-> typed[i][r]]]]

\* df.to_csv(temp_file.name, index=False)
ToCsv(d) ==
    Csv(d.cols, [r \in 1..Len(d.rows) |->
                    [i \in 1..Len(d.cols) |-> CsvCell(d.rows[r][i])]])

----------------------------------------------------------------------------
(* generate_id                                                              *)

Max(S) == CHOOSE x \in S : \A y \in S : y <= x

Txt_001 == <<"0", "0", "1">>

\* the suffixes that count: id_val.startswith(prefix) and int(id_val[len(prefix):])
\* does not raise ValueError
IdNumbers(ids, prefix) ==
    {PyInt(SubSeq(ids[i], Len(prefix) + 1, Len(ids[i]))) :
        i \in {j \in 1..Len(ids) :
                  /\ StartsWith(ids[j], prefix)
                  /\ PyIntOk(SubSeq(ids[j], Len(prefix) + 1, Len(ids[j])))}}

\* a scan that gives the largest number itself
MaxOf(numbers) == IF numbers = {} THEN 1 ELSE Max(numbers)

\* next_num = max(numbers) + 1 if numbers else 1
NextOf(numbers) == IF numbers = {} THEN 1 ELSE Max(numbers) + 1

NextNum(ids, prefix) == NextOf(IdNumbers(ids, prefix))

\* existing_ids = df[id_column].astype(str).tolist()
IdStrings(col) == [r \in 1..Len(col) |-> PyStr(col[r])]

\* generate_id on the DataFrame read from the table file, lines 473-487
GenerateIdFrom(d, prefix, id_column) ==
    IF d.rows = <<>> \/ ~HasCol(d, id_column) THEN prefix \o Txt_001
    ELSE prefix \o Fmt03d(NextNum(IdStrings(Column(d, id_column)), prefix))

\* the locked body of generate_id on file content f; hex is the uuid4 draw
\* of the except branch
GenerateId(f, prefix, id_column, hex) ==
    IF f.kind = "nofile" THEN prefix \o Txt_001
    ELSE IF ~ReadOk(f) THEN prefix \o hex
    ELSE GenerateIdFrom(ReadCsv(f), prefix, id_column)

----------------------------------------------------------------------------
(* DataFrame operations used by the bodies of CSVHandler.  A dict (a row to *)
(* create, updates, a condition) is a sequence of [c, v] items in          *)
(* insertion order.                                                        *)

Item(c, v) == [c |-> c, v |-> v]

DictHas(d, c) == \E i \in 1..Len(d) : d[i].c = c

DictGet(d, c) == d[CHOOSE i \in 1..Len(d) : d[i].c = c].v

\* the keys of a dict that are not among cols, in the dict's order
RECURSIVE NewKeys(_, _)
NewKeys(d, cols) ==
    IF d = <<>> THEN <<>>
    ELSE IF \E i \in 1..Len(cols) : cols[i] = Head(d).c THEN NewKeys(Tail(d), cols)
    ELSE <<Head(d).c>> \o NewKeys(Tail(d), cols \o <<Head(d).c>>)

IsNumCell(v) == v.k \in {"int", "float", "nan"}

\* a column of float64 dtype
IsFloatCol(cells) ==
    /\ cells # <<>>
    /\ \A i \in 1..Len(cells) : cells[i].k \in {"float", "nan"}

\* the common dtype of numeric parts: integers joined with floats or with
\* missing values become floats
Upcast(cells) ==
    IF /\ \A i \in 1..Len(cells) : IsNumCell(cells[i])
       /\ \E i \in 1..Len(cells) : cells[i].k \in {"float", "nan"}
    THEN [i \in 1..Len(cells) |->
             IF cells[i].k = "int" THEN FltV(cells[i].n) ELSE cells[i]]
    ELSE cells

\* the cell of row r (of n + 1) and column i of the concatenation
ConcatCell(d, data, cols, n, r, i) ==
    IF r <= n
    THEN IF i <= Len(d.cols) THEN d.rows[r][i] ELSE NaN
    ELSE IF DictHas(data, cols[i]) THEN DictGet(data, cols[i]) ELSE NaN

ConcatWith(d, data, cols, n) ==
    [cols |-> cols,
     rows |-> [r \in 1..(n + 1) |->
                  [i \in 1..Len(cols) |->
                      Upcast([q \in 1..(n + 1) |-> ConcatCell(d, data, cols, n, q, i)])[r]]]]

\* the rows of a frame with its last row moved to the front
LastFirst(c) ==
    [cols |-> c.cols,
     rows |-> <<c.rows[Len(c.rows)]>> \o SubSeq(c.rows, 1, Len(c.rows) - 1)]

\* a concatenation that puts the new row before the rows of the table
ConcatFirst(d, data) ==
    LastFirst(ConcatWith(d, data, d.cols \o NewKeys(data, d.cols), Len(d.rows)))

\* pd.concat([df, pd.DataFrame([data])], ignore_index=True)
Concat(d, data) == ConcatWith(d, data, d.cols \o NewKeys(data, d.cols), Len(d.rows))

\* df[id_column] = df[id_column].astype(str)
AsTypeStr(d, c) ==
    [cols |-> d.cols,
     rows |-> [r \in 1..Len(d.rows) |->
                  [i \in 1..Len(d.cols) |->
                      IF d.cols[i] = c THEN Str(PyStr(d.rows[r][i])) ELSE d.rows[r][i]]]]

\* the rows where df[id_column] == str(id_value), after astype(str)
IdMask(d, c, idv) == {r \in 1..Len(d.rows) : PyStr(d.rows[r][ColIdx(d.cols, c)]) = PyStr(idv)}

\* df.loc[mask, col] = val on an existing column: a float64 column keeps its
\* dtype when an integer is stored
SetAt(d, mask, i0, vv) ==
    [cols |-> d.cols,
     rows |-> [r \in 1..Len(d.rows) |->
                  [i \in 1..Len(d.cols) |->
                      IF i = i0 /\ r \in mask THEN vv ELSE d.rows[r][i]]]]

\* a column of int64 dtype
IsIntCol(cells) ==
    /\ cells # <<>>
    /\ \A i \in 1..Len(cells) : cells[i].k = "int"

\* the frame with the integers of column i0 as floats
ToFloatCol(d, i0) ==
    [cols |-> d.cols,
     rows |-> [r \in 1..Len(d.rows) |->
                  [i \in 1..Len(d.cols) |->
                      IF i = i0 /\ d.rows[r][i].k = "int"
                      THEN FltV(d.rows[r][i].n) ELSE d.rows[r][i]]]]

\* the value as a cell of a float64 column
AsFloatCell(v) ==
    IF IsNull(v) THEN NaN ELSE IF v.k = "int" THEN FltV(v.n) ELSE v

\* df.loc[mask, col] = val: an int64 column that receives a missing value or a
\* float becomes float64, all its rows included; a float64 column keeps its
\* dtype when an integer or a missing value is stored
SetCol(d, mask, c, v) ==
    IF IsIntCol(Column(d, c)) /\ (IsNull(v) \/ v.k = "float")
    THEN SetAt(ToFloatCol(d, ColIdx(d.cols, c)), mask, ColIdx(d.cols, c), AsFloatCell(v))
    ELSE SetAt(d, mask, ColIdx(d.cols, c),
               IF IsFloatCol(Column(d, c)) THEN AsFloatCell(v) ELSE v)

\* a new column that is filled with a value on every row
AddFilledCol(d, c) ==
    [cols |-> d.cols \o <<c>>,
     rows |-> [r \in 1..Len(d.rows) |-> d.rows[r] \o <<Str(<<"x">>)>>]]

\* df[col] = None
AddNoneCol(d, c) ==
    [cols |-> d.cols \o <<c>>,
     rows |-> [r \in 1..Len(d.rows) |-> d.rows[r] \o <<PyNone>>]]

\* for col, val in updates.items(): ... (update_by_id, lines 262-267)
RECURSIVE ApplyUpdates(_, _, _)
ApplyUpdates(d, mask, updates) ==
    IF updates = <<>> THEN d
    ELSE IF HasCol(d, Head(updates).c)
         THEN ApplyUpdates(SetCol(d, mask, Head(updates).c, Head(updates).v),
                           mask, Tail(updates))
         ELSE ApplyUpdates(SetCol(AddNoneCol(d, Head(updates).c), mask,
                                  Head(updates).c, Head(updates).v),
                           mask, Tail(updates))

\* the rows of d at the indices of keep, in order
RECURSIVE KeepRows(_, _, _)
KeepRows(rows, keep, r) ==
    IF r > Len(rows) THEN <<>>
    ELSE (IF r \in keep THEN <<rows[r]>> ELSE <<>>) \o KeepRows(rows, keep, r + 1)

Filter(d, keep) == [cols |-> d.cols, rows |-> KeepRows(d.rows, keep, 1)]

\* df.where(pd.notnull(df), None).to_dict('records'): a row as a dict
RowDict(d, r) ==
    [i \in 1..Len(d.cols) |->
        Item(d.cols[i], IF IsNull(d.rows[r][i]) THEN PyNone ELSE d.rows[r][i])]

Records(d) == [r \in 1..Len(d.rows) |-> RowDict(d, r)]

----------------------------------------------------------------------------
(* Calls and the locked bodies of the operations, as functions of the      *)
(* content f of the table file at the time the body runs.                  *)

NoTable == ""

NoCall ==
    [name |-> "none", dflt |-> NoTable, tn |-> NoTable, idv |-> PyNone, col |-> "",
     data |-> <<>>, upd |-> <<>>, field |-> "", amount |-> 0, prefix |-> <<>>,
     hex |-> <<>>, frame |-> EmptyDF, hasCond |-> TRUE]

\* what a call returns, or Raised when an exception leaves the call
RBool(b)  == [t |-> "bool", v |-> b]
RRows(rs) == [t |-> "rows", v |-> rs]
RRow(r)   == [t |-> "row", v |-> r]
RNone     == [t |-> "nonevalue"]
RId(s)    == [t |-> "id", v |-> s]
RFrame(d) == [t |-> "frame", v |-> d]
RInt(n)   == [t |-> "int", v |-> n]
Raised    == [t |-> "raise"]
NoRet     == [t |-> "noret"]

\* what a locked body does: return a value, raise, or go on to persist df
Return(v)   == [out |-> "ret", val |-> v, df |-> EmptyDF]
Raise       == [out |-> "raise", val |-> NoRet, df |-> EmptyDF]
Persist(d)  == [out |-> "write", val |-> RBool(TRUE), df |-> d]

\* create, lines 150-156
BodyCreate(o, f) ==
    IF f.kind = "nofile" THEN Persist(Concat(EmptyDF, o.data))
    ELSE IF ~ReadOk(f) THEN Raise
    ELSE Persist(Concat(ReadCsv(f), o.data))

FirstOf(mask) == CHOOSE r \in mask : \A q \in mask : r <= q

\* update_by_id once the id column is a column of strings, lines 255-267
UpdateMasked(d1, mask, updates) ==
    IF mask = {} THEN Return(RBool(FALSE)) ELSE Persist(ApplyUpdates(d1, mask, updates))

UpdateStr(o, d1) == UpdateMasked(d1, IdMask(d1, o.col, o.idv), o.data)

UpdateFrame(o, d) ==
    IF ~HasCol(d, o.col) THEN Return(RBool(FALSE)) ELSE UpdateStr(o, AsTypeStr(d, o.col))

\* update_by_id, lines 246-267
BodyUpdateById(o, f) ==
    IF f.kind = "nofile" THEN Return(RBool(FALSE))
    ELSE IF ~ReadOk(f) THEN Raise
    ELSE UpdateFrame(o, ReadCsv(f))

\* delete_by_id without the "nothing deleted" return
DeleteAlwaysWrites(d1, mask) == Persist(Filter(d1, (1..Len(d1.rows)) \ mask))

\* delete_by_id once the id column is a column of strings, lines 305-311
DeleteMasked(d1, mask) ==
    IF mask = {} THEN Return(RBool(FALSE))
    ELSE Persist(Filter(d1, (1..Len(d1.rows)) \ mask))

DeleteStr(o, d1) == DeleteMasked(d1, IdMask(d1, o.col, o.idv))

DeleteFrame(o, d) ==
    IF ~HasCol(d, o.col) THEN Return(RBool(FALSE)) ELSE DeleteStr(o, AsTypeStr(d, o.col))

\* delete_by_id, lines 297-311
BodyDeleteById(o, f) ==
    IF f.kind = "nofile" THEN Return(RBool(FALSE))
    ELSE IF ~ReadOk(f) THEN Raise
    ELSE DeleteFrame(o, ReadCsv(f))

\* int(current_value) of a cell that is not missing
CellIntOk(v) == v.k # "str" \/ PyIntOk(v.s)

CellInt(v) ==
    CASE v.k = "str"  -> PyInt(v.s)
      [] v.k = "bool" -> IF v.b THEN 1 ELSE 0
      [] OTHER        -> v.n

\* lines 530-534: current value of the first matching row, missing as 0
IncrementCell(o, d1, mask, cur) ==
    IF IsNull(cur) THEN Persist(SetCol(d1, mask, o.field, IntV(o.amount)))
    ELSE IF ~CellIntOk(cur) THEN Raise
    ELSE Persist(SetCol(d1, mask, o.field, IntV(CellInt(cur) + o.amount)))

\* lines 527-530: df.loc[mask, field] of a missing field raises KeyError
IncrementMasked(o, d1, mask) ==
    IF mask = {} THEN Return(RBool(FALSE))
    ELSE IF ~HasCol(d1, o.field) THEN Raise
    ELSE IncrementCell(o, d1, mask, d1.rows[FirstOf(mask)][ColIdx(d1.cols, o.field)])

IncrementStr(o, d1) == IncrementMasked(o, d1, IdMask(d1, o.col, o.idv))

\* line 524: df[id_column] of a missing id_column raises KeyError
IncrementFrame(o, d) ==
    IF ~HasCol(d, o.col) THEN Raise ELSE IncrementStr(o, AsTypeStr(d, o.col))

\* increment_field, lines 520-534
BodyIncrementField(o, f) ==
    IF f.kind = "nofile" THEN Return(RBool(FALSE))
    ELSE IF ~ReadOk(f) THEN Raise
    ELSE IncrementFrame(o, ReadCsv(f))

\* a read_all that writes the table back
ReadAllRewrites(o, f) == Persist(IF ReadOk(f) THEN ReadCsv(f) ELSE EmptyDF)

\* read_all, lines 184-189
BodyReadAll(o, f) ==
    IF f.kind = "nofile" THEN Return(RRows(<<>>))
    ELSE IF ~ReadOk(f) THEN Raise
    ELSE Return(RRows(Records(ReadCsv(f))))

ReadByIdMasked(d1, mask) ==
    IF mask = {} THEN Return(RNone) ELSE Return(RRow(RowDict(d1, FirstOf(mask))))

ReadByIdStr(o, d1) == ReadByIdMasked(d1, IdMask(d1, o.col, o.idv))

ReadByIdFrame(o, d) ==
    IF ~HasCol(d, o.col) THEN Return(RNone) ELSE ReadByIdStr(o, AsTypeStr(d, o.col))

\* read_by_id, lines 209-225
BodyReadById(o, f) ==
    IF f.kind = "nofile" THEN Return(RNone)
    ELSE IF ~ReadOk(f) THEN Raise
    ELSE ReadByIdFrame(o, ReadCsv(f))

\* the loop of find_all, lines 348-352: each condition column that exists is
\* converted to strings and compared with str(val); other keys are passed over
RECURSIVE StrCondFrame(_, _)
StrCondFrame(d, cond) ==
    IF cond = <<>> THEN d
    ELSE IF HasCol(d, Head(cond).c)
         THEN StrCondFrame(AsTypeStr(d, Head(cond).c), Tail(cond))
         ELSE StrCondFrame(d, Tail(cond))

StrCondMask(d, cond) ==
    {r \in 1..Len(d.rows) :
        \A i \in 1..Len(cond) :
            HasCol(d, cond[i].c) =>
                PyStr(d.rows[r][ColIdx(d.cols, cond[i].c)]) = PyStr(cond[i].v)}

FindAllFrame(o, d) ==
    IF d.rows = <<>> THEN Return(RRows(<<>>))
    ELSE Return(RRows(Records(Filter(StrCondFrame(d, o.data), StrCondMask(d, o.data)))))

\* find_all, lines 340-356
BodyFindAll(o, f) ==
    IF f.kind = "nofile" THEN Return(RRows(<<>>))
    ELSE IF ~ReadOk(f) THEN Raise
    ELSE FindAllFrame(o, ReadCsv(f))

\* df[col] == val of the legacy update and delete: typed equality
ValEq(a, b) ==
    CASE a.k \in {"int", "float"} /\ b.k \in {"int", "float"} -> a.n = b.n
      [] a.k = "str" /\ b.k = "str"   -> a.s = b.s
      [] a.k = "bool" /\ b.k = "bool" -> a.b = b.b
      [] a.k = "bool" /\ b.k \in {"int", "float"} -> b.n = (IF a.b THEN 1 ELSE 0)
      [] b.k = "bool" /\ a.k \in {"int", "float"} -> a.n = (IF b.b THEN 1 ELSE 0)
      [] OTHER -> FALSE

EqCondMask(d, cond) ==
    {r \in 1..Len(d.rows) :
        \A i \in 1..Len(cond) :
            HasCol(d, cond[i].c) =>
                ValEq(d.rows[r][ColIdx(d.cols, cond[i].c)], cond[i].v)}

DeleteWhereFrame(o, d) ==
    IF d.rows = <<>> THEN Return(RBool(FALSE))
    ELSE Persist(Filter(d, (1..Len(d.rows)) \ EqCondMask(d, o.data)))

\* delete (by condition), lines 427-439
BodyDelete(o, f) ==
    IF f.kind = "nofile" THEN Return(RBool(FALSE))
    ELSE IF ~ReadOk(f) THEN Raise
    ELSE DeleteWhereFrame(o, ReadCsv(f))

\* generate_id, lines 469-487 (read_csv raising leads to the except branch)
BodyGenerateId(o, f) ==
    IF f.kind # "nofile" /\ ~ReadOk(f) THEN Raise
    ELSE Return(RId(GenerateId(f, o.prefix, o.col, o.hex)))

\* read, lines 94-96
BodyRead(o, f) ==
    IF f.kind = "nofile" THEN Return(RFrame(EmptyDF))
    ELSE IF ~ReadOk(f) THEN Raise
    ELSE Return(RFrame(ReadCsv(f)))

\* write, lines 107-122
BodyWrite(o, f) == Persist(o.frame)

----------------------------------------------------------------------------
(* Dispatch of the public operations                                       *)

\* the operation whose locked section a public call runs: find, find_one,
\* count and exists delegate (lines 453-462, 493-500), append with a
\* table_name is create (line 368), update with an id_column is update_by_id
\* (lines 390-396)
Kernel(o) ==
    CASE o.name \in {"find", "find_one", "count", "exists"} ->
            IF o.hasCond THEN "find_all"
            ELSE IF o.tn # NoTable THEN "read_all" ELSE "nothing"
      [] o.name = "append" -> IF o.tn # NoTable THEN "create" ELSE "legacy_append"
      [] o.name = "update" -> IF o.col # "" THEN "update_by_id" ELSE "legacy_update"
      [] OTHER -> o.name

\* _get_file_path and _get_lock (lines 60-77): the legacy sections call
\* _locked_operation() without a table_name
Resolvable(o) ==
    IF Kernel(o) \in {"legacy_append", "legacy_update"} THEN o.dflt # NoTable
    ELSE o.tn # NoTable \/ o.dflt # NoTable

TableOf(o) ==
    IF Kernel(o) \in {"legacy_append", "legacy_update"} THEN o.dflt
    ELSE IF o.tn # NoTable THEN o.tn ELSE o.dflt

\* the locked body of a kernel
Body(o, f) ==
    CASE Kernel(o) = "create"          -> BodyCreate(o, f)
      [] Kernel(o) = "update_by_id"    -> BodyUpdateById(o, f)
      [] Kernel(o) = "delete_by_id"    -> BodyDeleteById(o, f)
      [] Kernel(o) = "increment_field" -> BodyIncrementField(o, f)
      [] Kernel(o) = "read_all"        -> BodyReadAll(o, f)
      [] Kernel(o) = "read_by_id"      -> BodyReadById(o, f)
      [] Kernel(o) = "find_all"        -> BodyFindAll(o, f)
      [] Kernel(o) = "delete"          -> BodyDelete(o, f)
      [] Kernel(o) = "generate_id"     -> BodyGenerateId(o, f)
      [] Kernel(o) = "read"            -> BodyRead(o, f)
      [] Kernel(o) = "write"           -> BodyWrite(o, f)

\* what the except branch of a kernel returns
ExceptValue(o) ==
    CASE Kernel(o) \in {"create", "update_by_id", "delete_by_id", "increment_field",
                        "delete", "write", "legacy_append", "legacy_update"}
                                       -> RBool(FALSE)
      [] Kernel(o) \in {"read_all", "find_all"} -> RRows(<<>>)
      [] Kernel(o) = "read_by_id"      -> RNone
      [] Kernel(o) = "read"            -> RFrame(EmptyDF)
      [] Kernel(o) = "generate_id"     -> RId(o.prefix \o o.hex)

\* a call on a handler without default file and without table_name: read and
\* write resolve the path outside their try (lines 91, 103), find_all resolves
\* it again inside its except branch (line 358), the others catch the ValueError
UnresolvedValue(o) ==
    IF Kernel(o) = "nothing" THEN RRows(<<>>)
    ELSE IF Kernel(o) \in {"read", "write", "find_all"} THEN Raised
    ELSE ExceptValue(o)

\* what the public operation makes of its kernel's value
Deliver(o, v) ==
    IF v.t # "rows" THEN v
    ELSE CASE o.name = "find_one" -> IF v.v = <<>> THEN RNone ELSE RRow(v.v[1])
           [] o.name = "count"    -> RInt(Len(v.v))
           [] o.name = "exists"   -> RBool(Len(v.v) > 0)
           [] OTHER               -> v

----------------------------------------------------------------------------
(* Threads, locks and the temp-file-then-rename writer                     *)

NumThreads == 2

Threads == 1..NumThreads

NoThread == 0

\* no entry in _file_locks
NoLock == 0

Tables == {"users", "scores"}

PendInit == [exc |-> FALSE, val |-> NoRet]

HistInit ==
    [pre |-> NoFile, post |-> NoFile, new |-> NoFile, faultAt |-> "",
     tmpMade |-> FALSE, moved |-> FALSE]

IsLegacy(o) == Kernel(o) \in {"legacy_append", "legacy_update"}

\* one lock for all the tables: acquiring waits while another thread holds the
\* lock of any table
AcquireGlobal(owner, th) == \A t \in DOMAIN lockOwner : lockOwner[t] \in {NoThread, th}

\* a lock that its holder cannot acquire again
AcquireOnce(owner, th) == owner = NoThread

\* a lock that every caller gets for itself: acquiring never waits
AcquireOwnLock(owner, th) == TRUE

\* RLock.acquire of another thread blocks unless the lock is free or already
\* held by the caller; get_file_lock hands every caller of a path the same lock
CanAcquire(owner, th) == owner = NoThread \/ owner = th

\* the file system seen by a persisting call: the table file and its temp file

\* a writer that opens the table file itself for writing
FsOpenInPlace(fs) == [tbl |-> Partial, tmp |-> Partial]

\* a writer whose to_csv goes to the table file
FsToCsvInPlace(fs, d) == [tbl |-> ToCsv(d), tmp |-> ToCsv(d)]

\* tempfile.NamedTemporaryFile(mode='w', delete=False, dir=...): a new empty file
FsMkTemp(fs) == [fs EXCEPT !.tmp = Partial]

\* df.to_csv(temp_file.name, index=False); temp_file.close()
FsToCsv(fs, d) == [fs EXCEPT !.tmp = ToCsv(d)]

\* shutil.move(temp_file.name, file_path): a rename within one directory
FsMove(fs) == [tbl |-> fs.tmp, tmp |-> NoFile]

\* a writer section that is left without its lock.release()
SkipRelease(o) == "done"

\* where a call goes after its writer section
AfterWrite(o) == IF IsLegacy(o) THEN "in_write_rel" ELSE "release"

\* a public operation is called on a handler
Call(th, o) ==
    /\ ~crashed
    /\ pc[th] = "idle"
    /\ op' = [op EXCEPT ![th] = o]
    /\ ncalls' = ncalls + 1
    /\ hist' = [hist EXCEPT ![th] = HistInit]
    /\ IF Kernel(o) = "nothing" \/ ~Resolvable(o)
       THEN /\ pc' = [pc EXCEPT ![th] = "done"]
            /\ pend' = [pend EXCEPT ![th] =
                           [exc |-> FALSE, val |-> Deliver(o, UnresolvedValue(o))]]
       ELSE /\ pc' = [pc EXCEPT ![th] = "acquire"]
            /\ pend' = [pend EXCEPT ![th] = PendInit]
    /\ UNCHANGED <<file, lockOwner, lockCount, df, tmp, crashed>>

\* lock.acquire() of _locked_operation (line 83), of the outer section and of
\* the read() and write() a legacy section calls
Acquire(th) ==
    LET t == TableOf(op[th])
    IN  /\ ~crashed
        /\ pc[th] \in {"acquire", "in_read_acq", "in_write_acq"}
        /\ CanAcquire(lockOwner[t], th)
        /\ lockOwner' = [lockOwner EXCEPT ![t] = th]
        /\ lockCount' = [lockCount EXCEPT ![t] = @ + 1]
        /\ pc' = [pc EXCEPT ![th] =
                     CASE pc[th] = "acquire" ->
                              IF IsLegacy(op[th]) THEN "in_read_acq" ELSE "body"
                       [] pc[th] = "in_read_acq"  -> "in_read"
                       [] pc[th] = "in_write_acq" -> "mktemp"]
        /\ hist' = [hist EXCEPT ![th].pre = IF pc[th] = "acquire" THEN file[t] ELSE @]
        /\ UNCHANGED <<file, op, df, tmp, pend, crashed, ncalls>>

\* the body of a locked section up to its return, its exception or the start
\* of its writer section
BodyStep(th) ==
    /\ ~crashed
    /\ pc[th] = "body"
    /\ \E b \in {Body(op[th], file[TableOf(op[th])])} :
          /\ pc' = [pc EXCEPT ![th] = IF b.out = "write" THEN "mktemp" ELSE "release"]
          /\ df' = [df EXCEPT ![th] = b.df]
          /\ pend' = [pend EXCEPT ![th] = [exc |-> b.out = "raise", val |-> b.val]]
          /\ hist' = [hist EXCEPT
                         ![th].new = IF b.out = "write" THEN ToCsv(b.df) ELSE @,
                         ![th].faultAt = IF b.out = "raise" THEN "body" ELSE @]
    /\ UNCHANGED <<file, lockOwner, lockCount, op, tmp, crashed, ncalls>>

\* tempfile.NamedTemporaryFile(...)
MkTemp(th) ==
    LET t  == TableOf(op[th])
        fs == FsMkTemp([tbl |-> file[t], tmp |-> tmp[th]])
    IN  /\ ~crashed
        /\ pc[th] = "mktemp"
        /\ file' = [file EXCEPT ![t] = fs.tbl]
        /\ tmp' = [tmp EXCEPT ![th] = fs.tmp]
        /\ pc' = [pc EXCEPT ![th] = "tocsv"]
        /\ hist' = [hist EXCEPT ![th].tmpMade = TRUE]
        /\ UNCHANGED <<lockOwner, lockCount, op, df, pend, crashed, ncalls>>

\* df.to_csv(temp_file.name, index=False); temp_file.close()
WriteTemp(th) ==
    LET t  == TableOf(op[th])
        fs == FsToCsv([tbl |-> file[t], tmp |-> tmp[th]], df[th])
    IN  /\ ~crashed
        /\ pc[th] = "tocsv"
        /\ file' = [file EXCEPT ![t] = fs.tbl]
        /\ tmp' = [tmp EXCEPT ![th] = fs.tmp]
        /\ pc' = [pc EXCEPT ![th] = "move"]
        /\ UNCHANGED <<lockOwner, lockCount, op, df, pend, hist, crashed, ncalls>>

\* shutil.move(temp_file.name, file_path); return True
Move(th) ==
    LET t  == TableOf(op[th])
        fs == FsMove([tbl |-> file[t], tmp |-> tmp[th]])
    IN  /\ ~crashed
        /\ pc[th] = "move"
        /\ file' = [file EXCEPT ![t] = fs.tbl]
        /\ tmp' = [tmp EXCEPT ![th] = fs.tmp]
        /\ pc' = [pc EXCEPT ![th] = AfterWrite(op[th])]
        /\ pend' = [pend EXCEPT ![th] = [exc |-> FALSE, val |-> RBool(TRUE)]]
        /\ hist' = [hist EXCEPT ![th].moved = TRUE]
        /\ UNCHANGED <<lockOwner, lockCount, op, df, crashed, ncalls>>


\* for col, val in updates.items(): if col in df.columns: ... (lines 413-415)
RECURSIVE ApplyExisting(_, _, _)
ApplyExisting(d, mask, updates) ==
    IF updates = <<>> THEN d
    ELSE IF HasCol(d, Head(updates).c)
         THEN ApplyExisting(SetCol(d, mask, Head(updates).c, Head(updates).v),
                            mask, Tail(updates))
         ELSE ApplyExisting(d, mask, Tail(updates))

\* the body of self.read() called inside a legacy section (line 371, 404)
InRead(th) ==
    LET t == TableOf(op[th])
    IN  /\ ~crashed
        /\ pc[th] = "in_read"
        /\ pc' = [pc EXCEPT ![th] = "in_read_rel"]
        /\ df' = [df EXCEPT ![th] =
                     IF ReadOk(file[t]) THEN ReadCsv(file[t]) ELSE EmptyDF]
        /\ pend' = [pend EXCEPT ![th].exc = file[t].kind # "nofile" /\ ~ReadOk(file[t])]
        /\ UNCHANGED <<file, lockOwner, lockCount, op, tmp, hist, crashed, ncalls>>

\* lock.release() of the read() or write() a legacy section called, followed by
\* that method's except branch: read returns an empty DataFrame (lines 97-99),
\* write removes its temp file and returns False (lines 123-130)
ReleaseInner(th) ==
    LET t == TableOf(op[th])
    IN  /\ ~crashed
        /\ pc[th] \in {"in_read_rel", "in_write_rel"}
        /\ lockCount' = [lockCount EXCEPT ![t] = @ - 1]
        /\ lockOwner' = [lockOwner EXCEPT ![t] = IF lockCount[t] = 1 THEN NoThread ELSE @]
        /\ IF pc[th] = "in_read_rel"
           THEN /\ pc' = [pc EXCEPT ![th] = "legacy_mid"]
                /\ df' = [df EXCEPT ![th] = IF pend[th].exc THEN EmptyDF ELSE @]
                /\ pend' = [pend EXCEPT ![th] = PendInit]
                /\ tmp' = tmp
           ELSE /\ pc' = [pc EXCEPT ![th] = "release"]
                /\ df' = df
                /\ pend' = [pend EXCEPT ![th] =
                               [exc |-> FALSE, val |-> RBool(~pend[th].exc)]]
                /\ tmp' = [tmp EXCEPT ![th] = IF pend[th].exc THEN NoFile ELSE @]
        /\ UNCHANGED <<file, op, hist, crashed, ncalls>>

\* the DataFrame a legacy section hands to write()
LegacyFrame(o, d) ==
    IF Kernel(o) = "legacy_append" THEN Concat(d, o.data)
    ELSE ApplyExisting(d, EqCondMask(d, o.data), o.upd)

\* between read() and write() of the legacy append (lines 372-374) and of the
\* legacy update (lines 405-417), which returns False on an empty DataFrame
LegacyMid(th) ==
    /\ ~crashed
    /\ pc[th] = "legacy_mid"
    /\ IF Kernel(op[th]) = "legacy_update" /\ df[th].rows = <<>>
       THEN /\ pc' = [pc EXCEPT ![th] = "release"]
            /\ pend' = [pend EXCEPT ![th].val = RBool(FALSE)]
            /\ UNCHANGED <<df, hist>>
       ELSE \E nd \in {LegacyFrame(op[th], df[th])} :
               /\ pc' = [pc EXCEPT ![th] = "in_write_acq"]
               /\ df' = [df EXCEPT ![th] = nd]
               /\ hist' = [hist EXCEPT ![th].new = ToCsv(nd)]
               /\ pend' = pend
    /\ UNCHANGED <<file, lockOwner, lockCount, op, tmp, crashed, ncalls>>

\* the step a thread is about to take raises an I/O error: reading the table
\* file, creating the temp file, writing it (leaving part of it), or moving it
Fault(th) ==
    LET t == TableOf(op[th])
    IN  /\ ~crashed
        /\ \/ pc[th] \in {"mktemp", "tocsv", "move"}
           \/ /\ pc[th] \in {"body", "in_read"}
              /\ file[t].kind # "nofile"
              /\ Kernel(op[th]) # "write"
        /\ pend' = [pend EXCEPT ![th].exc = TRUE]
        /\ hist' = [hist EXCEPT ![th].faultAt = pc[th]]
        /\ pc' = [pc EXCEPT ![th] =
                     CASE pc[th] = "body"    -> "release"
                       [] pc[th] = "in_read" -> "in_read_rel"
                       [] OTHER              -> AfterWrite(op[th])]
        /\ UNCHANGED <<file, lockOwner, lockCount, op, df, tmp, crashed, ncalls>>

\* lock.release() in the finally of _locked_operation (line 87), then the
\* except branch of the operation when its section raised; only write removes
\* the temp file there (lines 125-129)
Release(th) ==
    LET t == TableOf(op[th])
        o == op[th]
    IN  /\ ~crashed
        /\ pc[th] = "release"
        /\ lockCount' = [lockCount EXCEPT ![t] = @ - 1]
        /\ lockOwner' = [lockOwner EXCEPT ![t] = IF lockCount[t] = 1 THEN NoThread ELSE @]
        /\ pc' = [pc EXCEPT ![th] = "done"]
        /\ pend' = [pend EXCEPT ![th].val =
                       Deliver(o, IF pend[th].exc THEN ExceptValue(o) ELSE @)]
        /\ tmp' = [tmp EXCEPT ![th] =
                      IF pend[th].exc /\ Kernel(o) = "write" THEN NoFile ELSE @]
        /\ hist' = [hist EXCEPT ![th].post = file[t]]
        /\ UNCHANGED <<file, op, df, crashed, ncalls>>

\* the call returns to its caller; a temp file it did not move or remove stays
\* in the data directory, where no operation looks at it again
Finish(th) ==
    /\ ~crashed
    /\ pc[th] = "done"
    /\ pc' = [pc EXCEPT ![th] = "idle"]
    /\ tmp' = [tmp EXCEPT ![th] = NoFile]
    /\ op' = [op EXCEPT ![th] = NoCall]
    /\ df' = [df EXCEPT ![th] = EmptyDF]
    /\ pend' = [pend EXCEPT ![th] = PendInit]
    /\ hist' = [hist EXCEPT ![th] = HistInit]
    /\ UNCHANGED <<file, lockOwner, lockCount, crashed, ncalls>>

\* a thread is between the creation of its temp file and the return of its
\* writer section
InWriter(th) == pc[th] \in {"tocsv", "move"} \/ (pc[th] \in {"release", "in_write_rel"} /\ hist[th].tmpMade)

\* the process is killed at a step of a persisting operation: no thread takes
\* another step, the files stay as they are
Kill ==
    /\ ~crashed
    /\ \E th \in Threads : pc[th] = "mktemp" \/ InWriter(th)
    /\ crashed' = TRUE
    /\ UNCHANGED <<file, lockOwner, lockCount, pc, op, df, tmp, pend, hist, ncalls>>

----------------------------------------------------------------------------
(* The calls                                                               *)

C_create(tn, data) == [NoCall EXCEPT !.name = "create", !.tn = tn, !.data = data]

C_update_by_id(tn, idv, updates, col) ==
    [NoCall EXCEPT !.name = "update_by_id", !.tn = tn, !.idv = idv, !.data = updates,
                   !.col = col]

C_delete_by_id(tn, idv, col) ==
    [NoCall EXCEPT !.name = "delete_by_id", !.tn = tn, !.idv = idv, !.col = col]

C_increment_field(tn, idv, col, field, amount) ==
    [NoCall EXCEPT !.name = "increment_field", !.tn = tn, !.idv = idv, !.col = col,
                   !.field = field, !.amount = amount]

C_read_all(tn) == [NoCall EXCEPT !.name = "read_all", !.tn = tn]

C_read_by_id(tn, idv, col) ==
    [NoCall EXCEPT !.name = "read_by_id", !.tn = tn, !.idv = idv, !.col = col]

\* the operations that take an optional table_name run on a handler that may
\* have a default file (dflt)
C_find_all(dflt, cond, tn) ==
    [NoCall EXCEPT !.name = "find_all", !.dflt = dflt, !.tn = tn, !.data = cond]

C_query(name, dflt, hasCond, cond, tn) ==
    [NoCall EXCEPT !.name = name, !.dflt = dflt, !.tn = tn, !.data = cond,
                   !.hasCond = hasCond]

C_delete(dflt, cond, tn) ==
    [NoCall EXCEPT !.name = "delete", !.dflt = dflt, !.tn = tn, !.data = cond]

C_generate_id(dflt, prefix, col, tn, hex) ==
    [NoCall EXCEPT !.name = "generate_id", !.dflt = dflt, !.tn = tn, !.prefix = prefix,
                   !.col = col, !.hex = hex]

C_read(dflt, tn) == [NoCall EXCEPT !.name = "read", !.dflt = dflt, !.tn = tn]

C_write(dflt, frame, tn) ==
    [NoCall EXCEPT !.name = "write", !.dflt = dflt, !.tn = tn, !.frame = frame]

C_append(dflt, data, tn) ==
    [NoCall EXCEPT !.name = "append", !.dflt = dflt, !.tn = tn, !.data = data]

\* update(condition, updates) of the old calling convention
C_update_where(dflt, cond, updates) ==
    [NoCall EXCEPT !.name = "update", !.dflt = dflt, !.data = cond, !.upd = updates]

\* update(table_name, id_value, updates, id_column) of the new one
C_update(dflt, tn, idv, updates, col) ==
    [NoCall EXCEPT !.name = "update", !.dflt = dflt, !.tn = tn, !.idv = idv,
                   !.data = updates, !.col = col]

----------------------------------------------------------------------------
(* Sample data                                                             *)

IdA == Str(<<"A">>)
IdB == Str(<<"B">>)
IdC == Str(<<"C">>)
IdZ == Str(<<"Z">>)

\* a users table of two rows: id,n / A,1 / B,2
UsersFile == Csv(<<"id", "n">>, << <<(<<"A">>), (<<"1">>)>>, <<(<<"B">>), (<<"2">>)>> >>)

RowC == <<Item("id", IdC), Item("n", IntV(3))>>

HexSample == <<"A", "1", "B", "2", "C", "3">>

\* the calls of the concurrent workload
WorkCalls ==
    { C_create("users", RowC),
      C_update_by_id("users", IdA, <<Item("n", IntV(5))>>, "id"),
      C_update_by_id("users", IdA, <<Item("n", IntV(5))>>, "uid"),
      C_delete_by_id("users", IdA, "id"),
      C_delete_by_id("users", IdZ, "id"),
      C_increment_field("users", IdA, "id", "n", 1),
      C_increment_field("users", IdA, "uid", "n", 1),
      C_read_all("users"),
      C_write("users", ReadCsv(UsersFile), NoTable),
      C_append("users", RowC, NoTable),
      C_update_where("users", <<Item("id", IdB)>>, <<Item("n", IntV(7))>>) }

MaxCalls == 2

\* settings.CSV_DIR
CsvDir == "data/csv/"

\* a path that leaves the data directory out
PathBare(csv_file) == csv_file

\* self.file_path = settings.CSV_DIR / csv_file (line 53)
PathOfFile(csv_file) == CsvDir \o csv_file

\* settings.CSV_DIR / f"{table_name}.csv" (lines 63 and 72)
PathOfTable(tn) == CsvDir \o tn \o ".csv"

\* the file name a default-file handler of a table is constructed with, as in
\* get_users_handler (line 555)
FileName(tn) == tn \o ".csv"

\* the keys get_file_lock can be called with: the paths of the tables under
\* both calling conventions (the tables themselves stand for their paths where
\* only one convention is used)
LockPaths ==
    Tables \cup {PathOfTable(t) : t \in Tables} \cup {PathOfFile(FileName(t)) : t \in Tables}

\* the clients of the rate limiter
Clients == {"c1", "c2"}

\* a thread that is in no call of the rate limiter
LimIdle == [pc |-> "idle", client |-> "", now |-> 0, cutoff |-> 0]

\* what an attempt of func ends with: kind is "ok", "retryable" (an exception of
\* RETRYABLE_EXCEPTIONS), "status" (httpx.HTTPStatusError with a status code) or
\* "other" (any other exception); attempt tells the attempts apart
Outcome(kind, code, attempt) == [kind |-> kind, code |-> code, attempt |-> attempt]

\* last_exception = None
NoException == Outcome("none", 0, 0)

\* how retry_async ended: how is "return" or "raise", e the result or exception
Ended(how, e) == [how |-> how, e |-> e]

\* no call of retry_async under way
RetryIdle == [pc |-> "idle", max |-> 0, attempt |-> 0, last |-> NoException,
              calls |-> <<>>, out |-> Ended("none", NoException)]

\* the state after the module is imported and a data directory is given
Start(files) ==
    /\ file = files
    /\ lockOwner = [t \in Tables |-> NoThread]
    /\ lockCount = [t \in Tables |-> 0]
    /\ pc = [th \in Threads |-> "idle"]
    /\ op = [th \in Threads |-> NoCall]
    /\ df = [th \in Threads |-> EmptyDF]
    /\ tmp = [th \in Threads |-> NoFile]
    /\ pend = [th \in Threads |-> PendInit]
    /\ hist = [th \in Threads |-> HistInit]
    /\ crashed = FALSE
    /\ ncalls = 0
    /\ issued = [th \in Threads |-> 0]
    /\ held = [th \in Threads |-> <<>>]
    /\ log = [start |-> files, calls |-> <<>>]
    /\ fileLocks = [p \in LockPaths |-> NoLock]
    /\ lockManager = NoThread
    /\ lockObjs = 0
    /\ returned = {}
    /\ clock = 0
    /\ requests = [c \in Clients |-> <<>>]
    /\ limLock = NoThread
    /\ lim = [th \in Threads |-> LimIdle]
    /\ served = <<>>
    /\ retry = RetryIdle

Init ==
    \E u \in {NoFile, UsersFile} :
        Start([t \in Tables |-> IF t = "users" THEN u ELSE NoFile])

Registry == <<fileLocks, lockManager, lockObjs, returned>>

Aux == <<issued, held, log, Registry, Utils>>

\* the threads of the mixed workload
Workers == {1, 2}

CallWork(th) ==
    /\ ncalls < MaxCalls
    /\ \E o \in WorkCalls : Call(th, o)
    /\ UNCHANGED Aux

Next ==
    \/ \E th \in Workers : CallWork(th)
    \/ \E th \in Workers : Acquire(th) /\ UNCHANGED Aux
    \/ \E th \in Workers : BodyStep(th) /\ UNCHANGED Aux
    \/ \E th \in Workers : InRead(th) /\ UNCHANGED Aux
    \/ \E th \in Workers : ReleaseInner(th) /\ UNCHANGED Aux
    \/ \E th \in Workers : LegacyMid(th) /\ UNCHANGED Aux
    \/ \E th \in Workers : MkTemp(th) /\ UNCHANGED Aux
    \/ \E th \in Workers : WriteTemp(th) /\ UNCHANGED Aux
    \/ \E th \in Workers : Move(th) /\ UNCHANGED Aux
    \/ \E th \in Workers : Fault(th) /\ UNCHANGED Aux
    \/ \E th \in Workers : Release(th) /\ UNCHANGED Aux
    \/ \E th \in Workers : Finish(th) /\ UNCHANGED Aux
    \/ Kill /\ UNCHANGED Aux

Spec == Init /\ [][Next]_vars

----------------------------------------------------------------------------
(* Properties of the concurrent workload (specification Spec)              *)

\* a thread is inside a locked section: it has acquired the table lock of its
\* call and not yet released it
InSection(th) ==
    pc[th] \in {"body", "mktemp", "tocsv", "move", "release", "in_read_acq", "in_read",
                "in_read_rel", "legacy_mid", "in_write_acq", "in_write_rel"}

\* C1: at most one thread is inside the locked section of an operation on a
\* given table; another thread calling an operation on that table, a read
\* included, is not inside its section while the first one is
C1_MutualExclusion ==
    \A a \in Threads : \A b \in Threads :
        (a # b /\ InSection(a) /\ InSection(b)) => TableOf(op[a]) # TableOf(op[b])

\* a reader waits for the lock of the table another thread is writing
C1_Witness ==
    \E a \in Threads : \E b \in Threads :
        /\ a # b
        /\ pc[a] = "tocsv"
        /\ pc[b] = "acquire"
        /\ op[b].name = "read_all"
        /\ TableOf(op[a]) = TableOf(op[b])

WriterKernels == {"create", "update_by_id", "delete_by_id", "increment_field", "write"}

\* C8: when create, update_by_id, delete_by_id, increment_field or write fails
\* before the rename (reading the table, building the new content, creating or
\* writing the temp file), it returns False and the table file is what it was
C8_FailureLeavesTable ==
    \A th \in Threads :
        ( /\ pc[th] = "done"
          /\ Kernel(op[th]) \in WriterKernels
          /\ hist[th].faultAt \in {"body", "mktemp", "tocsv"} )
        => /\ pend[th].val = RBool(FALSE)
           /\ hist[th].post = hist[th].pre

\* create failed while writing its temp file; the table file still does not exist
C8_Witness ==
    \E th \in Threads :
        /\ pc[th] = "done"
        /\ Kernel(op[th]) = "create"
        /\ hist[th].faultAt = "tocsv"
        /\ hist[th].pre.kind = "nofile"
        /\ hist[th].post.kind = "nofile"

\* C9: on every write path, when an exception occurs after the temp file was
\* created and before it is renamed, the temp file no longer exists when the
\* operation returns False
C9_TempRemoved ==
    \A th \in Threads :
        (pc[th] = "done" /\ hist[th].faultAt = "tocsv") => tmp[th].kind = "nofile"

\* no row of the file's id_column has the string form of id_value, or there is
\* no file, or no such column
NoMatchIn(o, d) ==
    \/ ~HasCol(d, o.col)
    \/ \A r \in 1..Len(d.rows) : PyStr(d.rows[r][ColIdx(d.cols, o.col)]) # PyStr(o.idv)

NoMatch(o, f) == f.kind = "nofile" \/ (ReadOk(f) /\ NoMatchIn(o, ReadCsv(f)))

\* C10: delete_by_id, update_by_id and increment_field on an id that matches no
\* row (or on a missing file or id_column) return False, create no temp file
\* and leave the table file, absent or not, as it was
C10_NoMatchNoOp ==
    \A th \in Threads :
        ( /\ pc[th] = "done"
          /\ Kernel(op[th]) \in {"delete_by_id", "update_by_id", "increment_field"}
          /\ NoMatch(op[th], hist[th].pre) )
        => /\ pend[th].val = RBool(FALSE)
           /\ ~hist[th].tmpMade
           /\ hist[th].post = hist[th].pre

\* delete_by_id of an id that no row of an existing table has
C10_Witness ==
    \E th \in Threads :
        /\ pc[th] = "done"
        /\ Kernel(op[th]) = "delete_by_id"
        /\ op[th].col = "id"
        /\ hist[th].pre.kind = "csv"
        /\ hist[th].faultAt = ""
        /\ NoMatch(op[th], hist[th].pre)

----------------------------------------------------------------------------
(* generate_id on tables of sample ids (specification SpecId)              *)

IdPrefix == <<"T">>

\* what follows the prefix in the sample ids
IdSuffixes ==
    { <<"0", "0", "1">>, <<"0", "0", "5">>, <<"9">>, <<"9", "9", "9">>,
      <<"-", "5">>, <<" ", "5">>, <<"x">>, <<"1", "0", "0", "0">> }

\* ids with the prefix, and one id of another prefix
IdSamples == {IdPrefix \o s : s \in IdSuffixes} \cup {<<"U", "7">>}

MaxIdRows == 2

IdTables == UNION {[1..n -> IdSamples] : n \in 0..MaxIdRows}

\* a table file with the one column id
IdFile(ids) == Csv(<<"id">>, [r \in 1..Len(ids) |-> <<ids[r]>>])

InitId ==
    \E f \in {NoFile} \cup {IdFile(ids) : ids \in IdTables} :
        Start([t \in Tables |-> IF t = "users" THEN f ELSE NoFile])

\* the thread of the specifications of one caller
Solo == {1}

CallGenerateId(th) ==
    /\ ncalls = 0
    /\ \E col \in {"id", "uid"} :
          Call(th, C_generate_id(NoTable, IdPrefix, col, "users", HexSample))
    /\ UNCHANGED Aux

NextId ==
    \/ \E th \in Solo : CallGenerateId(th)
    \/ \E th \in Solo : Acquire(th) /\ UNCHANGED Aux
    \/ \E th \in Solo : BodyStep(th) /\ UNCHANGED Aux
    \/ \E th \in Solo : Release(th) /\ UNCHANGED Aux
    \/ \E th \in Solo : Finish(th) /\ UNCHANGED Aux

SpecId == InitId /\ [][NextId]_vars

\* C6: generate_id returns the prefix followed by max+1 zero-padded to at
\* least three digits, max being the largest integer suffix of the stored ids
\* that start with the prefix and whose remainder parses as an integer; it
\* returns prefix + "001" when the file does not exist, the table has no rows,
\* the id column is absent or no stored id qualifies
C6_GenerateId ==
    \A th \in Threads :
        (pc[th] = "done" /\ op[th].name = "generate_id" /\ hist[th].faultAt = "") =>
            LET f      == hist[th].pre
                prefix == op[th].prefix
                has    == f.kind = "csv" /\ \E i \in 1..Len(f.cols) : f.cols[i] = op[th].col
                stored == IF has
                          THEN [r \in 1..Len(f.rows) |-> f.rows[r][ColIdx(f.cols, op[th].col)]]
                          ELSE <<>>
                rest(v) == SubSeq(v, Len(prefix) + 1, Len(v))
                nums   == {PyInt(rest(stored[r])) :
                              r \in {q \in 1..Len(stored) :
                                        /\ StartsWith(stored[q], prefix)
                                        /\ PyIntOk(rest(stored[q]))}}
                next   == Max(nums) + 1
                padded == IF next < 0
                          THEN <<"-">> \o Zeros(3 - Len(DecStr(-next))) \o DecStr(-next)
                          ELSE Zeros(3 - Len(DecStr(next))) \o DecStr(next)
            IN  pend[th].val = RId(prefix \o (IF nums = {} THEN <<"0", "0", "1">> ELSE padded))

\* the texts stored in column col of table file f
StoredIds(f, col) ==
    IF f.kind = "csv" /\ \E i \in 1..Len(f.cols) : f.cols[i] = col
    THEN {f.rows[r][ColIdx(f.cols, col)] : r \in 1..Len(f.rows)}
    ELSE {}

\* the values of column col as the scan sees them: df[col].astype(str)
ScannedIds(f, col) ==
    IF f.kind = "csv" /\ ReadOk(f) /\ HasCol(ReadCsv(f), col)
    THEN {PyStr(Column(ReadCsv(f), col)[r]) : r \in 1..Len(ReadCsv(f).rows)}
    ELSE {}

\* C26: an id that generate_id returns through its normal path differs from
\* every id that column id_column of the table held when it was scanned, as
\* stored and as scanned, whatever follows the prefix in the stored ids
C26_FreshId ==
    \A th \in Threads :
        (pc[th] = "done" /\ op[th].name = "generate_id" /\ ~pend[th].exc) =>
            /\ pend[th].val.t = "id"
            /\ pend[th].val.v \notin StoredIds(hist[th].pre, op[th].col)
            /\ pend[th].val.v \notin ScannedIds(hist[th].pre, op[th].col)

\* generate_id returned for a table that holds an id beyond 999 and an id whose
\* suffix is not a number
C26_Witness ==
    \E th \in Threads :
        /\ pc[th] = "done" /\ op[th].name = "generate_id" /\ ~pend[th].exc
        /\ op[th].col = "id"
        /\ StoredIds(hist[th].pre, "id") =
               {IdPrefix \o <<"1", "0", "0", "0">>, IdPrefix \o <<"x">>}
        /\ pend[th].val = RId(IdPrefix \o <<"1", "0", "0", "1">>)

----------------------------------------------------------------------------
(* Every public operation, called by one caller on a handler with or       *)
(* without a default file, with or without table_name (specification       *)
(* SpecApi)                                                                *)

CondA == <<Item("id", IdA)>>

UpdN == <<Item("n", IntV(5))>>

\* the operations whose table_name is a required argument
NamedCalls ==
    { C_create("users", RowC),
      C_read_all("users"),
      C_read_by_id("users", IdA, "id"),
      C_update_by_id("users", IdA, UpdN, "id"),
      C_delete_by_id("users", IdA, "id"),
      C_increment_field("users", IdA, "id", "n", 1) }

\* the operations whose table_name is optional, on a handler whose default
\* file is dflt
OptionalCalls(dflt, tn) ==
    { C_read(dflt, tn),
      C_write(dflt, ReadCsv(UsersFile), tn),
      C_find_all(dflt, CondA, tn),
      C_delete(dflt, CondA, tn),
      C_generate_id(dflt, IdPrefix, "id", tn, HexSample),
      C_append(dflt, RowC, tn),
      C_update_where(dflt, CondA, UpdN),
      C_update(dflt, tn, IdA, UpdN, "id") }
    \cup {C_query(name, dflt, hc, CondA, tn) :
             name \in {"find", "find_one", "count", "exists"}, hc \in BOOLEAN}

ApiCalls ==
    NamedCalls \cup
    UNION {OptionalCalls(dflt, tn) : dflt \in {NoTable, "users"}, tn \in {NoTable, "users"}}

MaxApiCalls == 1

CallApi(th) ==
    /\ ncalls < MaxApiCalls
    /\ \E o \in ApiCalls : Call(th, o)
    /\ UNCHANGED Aux

NextApi ==
    \/ \E th \in Solo : CallApi(th)
    \/ \E th \in Solo : Acquire(th) /\ UNCHANGED Aux
    \/ \E th \in Solo : BodyStep(th) /\ UNCHANGED Aux
    \/ \E th \in Solo : InRead(th) /\ UNCHANGED Aux
    \/ \E th \in Solo : ReleaseInner(th) /\ UNCHANGED Aux
    \/ \E th \in Solo : LegacyMid(th) /\ UNCHANGED Aux
    \/ \E th \in Solo : MkTemp(th) /\ UNCHANGED Aux
    \/ \E th \in Solo : WriteTemp(th) /\ UNCHANGED Aux
    \/ \E th \in Solo : Move(th) /\ UNCHANGED Aux
    \/ \E th \in Solo : Fault(th) /\ UNCHANGED Aux
    \/ \E th \in Solo : Release(th) /\ UNCHANGED Aux
    \/ \E th \in Solo : Finish(th) /\ UNCHANGED Aux

SpecApi == Init /\ [][NextApi]_vars

\* C7: no public operation raises to its caller; every call, also on a handler
\* without a default file called without a table name and also when I/O fails
\* inside the body, returns a boolean, a list, a record or null, or an id
C7_NeverRaises ==
    \A th \in Threads : pc[th] = "done" => pend[th].val # Raised

----------------------------------------------------------------------------
(* Threads that increment one field of one row (specification SpecInc)     *)

\* the increment every thread repeats
IncCall == C_increment_field("users", IdA, "id", "n", 2)

\* calls per thread
IncCalls == 2

InitInc == Start([t \in Tables |-> IF t = "users" THEN UsersFile ELSE NoFile])

CallInc(th) ==
    /\ issued[th] < IncCalls
    /\ Call(th, IncCall)
    /\ issued' = [issued EXCEPT ![th] = @ + 1]
    /\ UNCHANGED <<held, log, Registry, Utils>>

NextInc ==
    \/ \E th \in Threads : CallInc(th)
    \/ \E th \in Threads : Acquire(th) /\ UNCHANGED Aux
    \/ \E th \in Threads : BodyStep(th) /\ UNCHANGED Aux
    \/ \E th \in Threads : MkTemp(th) /\ UNCHANGED Aux
    \/ \E th \in Threads : WriteTemp(th) /\ UNCHANGED Aux
    \/ \E th \in Threads : Move(th) /\ UNCHANGED Aux
    \/ \E th \in Threads : Release(th) /\ UNCHANGED Aux
    \/ \E th \in Threads : Finish(th) /\ UNCHANGED Aux

SpecInc == InitInc /\ [][NextInc]_vars

\* every thread has made its calls and every call has returned
AllReturned == \A th \in Threads : pc[th] = "idle" /\ issued[th] = IncCalls

\* the users table whose row A has n = v
UsersWithN(v) ==
    Csv(<<"id", "n">>, << <<(<<"A">>), IntStr(v)>>, <<(<<"B">>), (<<"2">>)>> >>)

\* C2: for every interleaving of the threads, each calling increment_field
\* IncCalls times on the same row and field, every call returns True and, once
\* all calls have returned, the stored value is the initial value plus
\* threads * calls * amount
C2_NoLostUpdates ==
    /\ \A th \in Threads : pc[th] = "done" => pend[th].val = RBool(TRUE)
    /\ AllReturned => file["users"] = UsersWithN(1 + NumThreads * IncCalls * IncCall.amount)

\* every thread has made all its calls on the table and every call has returned
C2_Witness == AllReturned /\ file["users"].kind = "csv"

----------------------------------------------------------------------------
(* Threads that create, update and delete rows of one table (specification *)
(* SpecCrud)                                                               *)

CrudCalls ==
    { C_create("users", RowC),
      C_update_by_id("users", IdA, UpdN, "id"),
      C_update_by_id("users", IdC, UpdN, "id"),
      C_delete_by_id("users", IdA, "id"),
      C_delete_by_id("users", IdC, "id") }

MaxCrudCalls == 3

CallCrud(th) ==
    /\ ncalls < MaxCrudCalls
    /\ \E o \in CrudCalls : Call(th, o)
    /\ UNCHANGED Aux

\* the call takes the lock of its table: its place in the order of the calls
AcquireLogged(th) ==
    /\ Acquire(th)
    /\ log' = [log EXCEPT !.calls = Append(@, op[th])]
    /\ UNCHANGED <<issued, held, Registry, Utils>>

NextCrud ==
    \/ \E th \in Threads : CallCrud(th)
    \/ \E th \in Threads : AcquireLogged(th)
    \/ \E th \in Threads : BodyStep(th) /\ UNCHANGED Aux
    \/ \E th \in Threads : MkTemp(th) /\ UNCHANGED Aux
    \/ \E th \in Threads : WriteTemp(th) /\ UNCHANGED Aux
    \/ \E th \in Threads : Move(th) /\ UNCHANGED Aux
    \/ \E th \in Threads : Release(th) /\ UNCHANGED Aux
    \/ \E th \in Threads : Finish(th) /\ UNCHANGED Aux

SpecCrud == Init /\ [][NextCrud]_vars

\* the table file after the call o has run alone on the table file f
AloneOn(f, b) == IF b.out = "write" THEN ToCsv(b.df) ELSE f

\* the table file after the calls have run one at a time, in their order
RECURSIVE OneAtATime(_, _)
OneAtATime(f, calls) ==
    IF calls = <<>> THEN f
    ELSE OneAtATime(AloneOn(f, Body(Head(calls), f)), Tail(calls))

\* C3: for every interleaving of threads that create, update_by_id and
\* delete_by_id on one table, when every call has returned the rows of the
\* table file are those left by the same calls applied one at a time in the
\* order in which they acquired the table lock
C3_Serializable ==
    (\A th \in Threads : ~InSection(th)) =>
        file["users"] = OneAtATime(log.start["users"], log.calls)

\* three calls have returned; the second and the third asked for the lock while
\* the first held it
C3_Witness ==
    /\ \A th \in Threads : pc[th] = "idle"
    /\ Len(log.calls) = MaxCrudCalls
    /\ file["users"] # log.start["users"]

----------------------------------------------------------------------------
(* Threads that take an id from generate_id and then insert a row carrying *)
(* it, as evaluate_mcq_answer does (specification SpecRace)                *)

\* rounds of generate_id and insert per thread
RaceRounds == 1

InitRace ==
    \E f \in {NoFile, IdFile(<<IdPrefix \o Txt_001>>)} :
        Start([t \in Tables |-> IF t = "users" THEN f ELSE NoFile])

\* score_id = self.scores_handler.generate_id("SCR", "score_id")
CallScan(th) ==
    /\ issued[th] < RaceRounds
    /\ held[th] = <<>>
    /\ Call(th, C_generate_id(NoTable, IdPrefix, "id", "users", HexSample))
    /\ issued' = [issued EXCEPT ![th] = @ + 1]
    /\ UNCHANGED <<held, log, Registry, Utils>>

\* the row that carries the id
RowOf(id) == <<Item("id", Str(id))>>

\* self.scores_handler.append(score_data), or create, with the id it got
CallInsert(th) ==
    /\ held[th] # <<>>
    /\ \/ Call(th, C_create("users", RowOf(held[th])))
       \/ Call(th, C_append(NoTable, RowOf(held[th]), "users"))
    /\ UNCHANGED Aux

\* the call returns; the caller keeps the id generate_id returned until it has
\* inserted the row
FinishRace(th) ==
    /\ Finish(th)
    /\ held' = [held EXCEPT ![th] =
                   IF op[th].name = "generate_id" THEN pend[th].val.v ELSE <<>>]
    /\ UNCHANGED <<issued, log, Registry, Utils>>

NextRace ==
    \/ \E th \in Threads : CallScan(th)
    \/ \E th \in Threads : CallInsert(th)
    \/ \E th \in Threads : Acquire(th) /\ UNCHANGED Aux
    \/ \E th \in Threads : BodyStep(th) /\ UNCHANGED Aux
    \/ \E th \in Threads : MkTemp(th) /\ UNCHANGED Aux
    \/ \E th \in Threads : WriteTemp(th) /\ UNCHANGED Aux
    \/ \E th \in Threads : Move(th) /\ UNCHANGED Aux
    \/ \E th \in Threads : Release(th) /\ UNCHANGED Aux
    \/ \E th \in Threads : FinishRace(th)

SpecRace == InitRace /\ [][NextRace]_vars

\* C5: when threads each call generate_id and then insert a row carrying the
\* returned id, by create or by append, the table never has two rows with the
\* same value in the id column
C5_UniqueIds ==
    file["users"].kind = "csv" =>
        \A r \in 1..Len(file["users"].rows) : \A q \in 1..Len(file["users"].rows) :
            file["users"].rows[r][1] = file["users"].rows[q][1] => r = q

----------------------------------------------------------------------------
(* One caller that creates rows, deletes rows by id and reads the table    *)
(* (specification SpecOrder)                                               *)

IdU1 == Str(<<"U", "1">>)
IdU2 == Str(<<"U", "2">>)

RowU(id, n) == <<Item("id", id), Item("n", IntV(n))>>

\* two rows of id U1, so that one delete_by_id removes more than one row
OrderCalls ==
    { C_create("users", RowU(IdU1, 1)),
      C_create("users", RowU(IdU2, 2)),
      C_create("users", RowU(IdU1, 3)),
      C_delete_by_id("users", IdU1, "id"),
      C_delete_by_id("users", IdU2, "id"),
      C_read_all("users") }

MaxOrderCalls == 4

InitOrder == Start([t \in Tables |-> NoFile])

CallOrder(th) ==
    /\ ncalls < MaxOrderCalls
    /\ \E o \in OrderCalls : Call(th, o)
    /\ UNCHANGED Aux

NextOrder ==
    \/ \E th \in Solo : CallOrder(th)
    \/ \E th \in Solo : AcquireLogged(th)
    \/ \E th \in Solo : BodyStep(th) /\ UNCHANGED Aux
    \/ \E th \in Solo : MkTemp(th) /\ UNCHANGED Aux
    \/ \E th \in Solo : WriteTemp(th) /\ UNCHANGED Aux
    \/ \E th \in Solo : Move(th) /\ UNCHANGED Aux
    \/ \E th \in Solo : Release(th) /\ UNCHANGED Aux
    \/ \E th \in Solo : Finish(th) /\ UNCHANGED Aux

SpecOrder == InitOrder /\ [][NextOrder]_vars

\* the rows of a list whose id differs, as a string, from the string of idv
RECURSIVE WithoutId(_, _)
WithoutId(rows, idv) ==
    IF rows = <<>> THEN <<>>
    ELSE (IF PyStr(DictGet(Head(rows), "id")) = PyStr(idv) THEN <<>> ELSE <<Head(rows)>>)
         \o WithoutId(Tail(rows), idv)

\* the created rows that were not deleted afterwards, in the order of their
\* creation
RECURSIVE Surviving(_, _)
Surviving(rows, calls) ==
    IF calls = <<>> THEN rows
    ELSE Surviving(CASE Head(calls).name = "create" -> Append(rows, Head(calls).data)
                     [] Head(calls).name = "delete_by_id" -> WithoutId(rows, Head(calls).idv)
                     [] OTHER -> rows,
                   Tail(calls))

----------------------------------------------------------------------------
(* One caller that creates, updates, increments, deletes and reads rows of *)
(* tables of two or three rows (specification SpecRows)                    *)

\* a users table with two rows of id A: id,n / A,1 / A,2 / B,3
DupFile ==
    Csv(<<"id", "n">>,
        << <<(<<"A">>), (<<"1">>)>>, <<(<<"A">>), (<<"2">>)>>, <<(<<"B">>), (<<"3">>)>> >>)

\* a row that brings a column the table does not have
RowD == <<Item("id", Str(<<"D">>)), Item("n", IntV(4)), Item("extra", Str(<<"v">>))>>

UpdExtra == <<Item("extra", Str(<<"v">>))>>

UpdNone == <<Item("n", PyNone)>>

RowCalls ==
    { C_create("users", RowC),
      C_create("users", RowD),
      C_update_by_id("users", IdA, UpdN, "id"),
      C_update_by_id("users", IdA, UpdExtra, "id"),
      C_update_by_id("users", IdA, UpdNone, "id"),
      C_update_by_id("users", IdZ, UpdN, "id"),
      C_delete_by_id("users", IdA, "id"),
      C_delete_by_id("users", IdB, "id"),
      C_increment_field("users", IdA, "id", "n", 1),
      C_read_all("users"),
      C_read_by_id("users", IdB, "id") }

MaxRowCalls == 3

InitRows ==
    \E f \in {NoFile, UsersFile, DupFile} :
        Start([t \in Tables |-> IF t = "users" THEN f ELSE NoFile])

CallRows(th) ==
    /\ ncalls < MaxRowCalls
    /\ \E o \in RowCalls : Call(th, o)
    /\ UNCHANGED Aux

NextRows ==
    \/ \E th \in Solo : CallRows(th)
    \/ \E th \in Solo : Acquire(th) /\ UNCHANGED Aux
    \/ \E th \in Solo : BodyStep(th) /\ UNCHANGED Aux
    \/ \E th \in Solo : MkTemp(th) /\ UNCHANGED Aux
    \/ \E th \in Solo : WriteTemp(th) /\ UNCHANGED Aux
    \/ \E th \in Solo : Move(th) /\ UNCHANGED Aux
    \/ \E th \in Solo : Release(th) /\ UNCHANGED Aux
    \/ \E th \in Solo : Finish(th) /\ UNCHANGED Aux

SpecRows == InitRows /\ [][NextRows]_vars

\* the rows of the table file f whose id column, as read, has the string of idv
MatchingRows(f, col, idv) ==
    IF f.kind = "csv" /\ HasCol(f, col) THEN IdMask(ReadCsv(f), col, idv) ELSE {}

\* the text of row r and column c of a table file, none when f lacks the column
FieldText(f, r, c) == IF HasCol(f, c) THEN <<f.rows[r][ColIdx(f.cols, c)]>> ELSE <<>>

\* C12: when a row's id_column string-equals id_value, update_by_id returns
\* True and afterwards every matching row has each key of updates set to the
\* given value, every non-matching row keeps all its values, every column not
\* named in updates is unchanged on all rows, and the number and the order of
\* the rows are unchanged
C12_UpdateFrame ==
    \A th \in Threads :
        ( /\ pc[th] = "done"
          /\ Kernel(op[th]) = "update_by_id"
          /\ MatchingRows(hist[th].pre, op[th].col, op[th].idv) # {} )
        => LET pre  == hist[th].pre
               post == hist[th].post
               hit  == MatchingRows(pre, op[th].col, op[th].idv)
               upd  == op[th].data
           IN  /\ pend[th].val = RBool(TRUE)
               /\ post.kind = "csv"
               /\ Len(post.rows) = Len(pre.rows)
               /\ \A r \in 1..Len(pre.rows) : \A i \in 1..Len(pre.cols) :
                     (r \notin hit \/ ~DictHas(upd, pre.cols[i])) =>
                         FieldText(post, r, pre.cols[i]) = <<pre.rows[r][i]>>
               /\ \A r \in hit : \A k \in 1..Len(upd) :
                     FieldText(post, r, upd[k].c) = <<CsvCell(upd[k].v)>>

\* the value of column c in row r of what read_all returns for the file
ReadBack(f, r, c) == DictGet(Records(ReadCsv(f))[r], c)

\* the rows of the file before the call that the call neither matched nor added
OtherRows(o, pre) ==
    IF Kernel(o) = "create" THEN 1..Len(pre.rows)
    ELSE (1..Len(pre.rows)) \ MatchingRows(pre, o.col, o.idv)

C13_LastRowWitness ==
    \E th \in Threads :
        /\ pc[th] = "done"
        /\ Kernel(op[th]) = "delete_by_id"
        /\ hist[th].pre.kind = "csv"
        /\ hist[th].pre.rows # <<>>
        /\ hist[th].post.kind = "csv"
        /\ hist[th].post.rows = <<>>

----------------------------------------------------------------------------
(* The queries of one caller on a table of two or three rows               *)

CondA1 == <<Item("id", IdA), Item("n", IntV(1))>>

CondN3 == <<Item("n", IntV(3))>>

\* a key that names a column the tables do not have
CondAbsent == <<Item("zz", Str(<<"q">>))>>

CondAbsentA == <<Item("id", IdA), Item("zz", Str(<<"q">>))>>

FindConds == {<<>>, CondA, CondA1, CondN3, CondAbsent, CondAbsentA}

FindCalls ==
    {C_find_all(NoTable, c, "users") : c \in FindConds}
        \cup {C_query("find_one", NoTable, TRUE, c, "users") : c \in FindConds}

MaxFindCalls == 1

CallFind(th) ==
    /\ ncalls < MaxFindCalls
    /\ \E o \in FindCalls : Call(th, o)
    /\ UNCHANGED Aux

NextFind ==
    \/ \E th \in Solo : CallFind(th)
    \/ \E th \in Solo : Acquire(th) /\ UNCHANGED Aux
    \/ \E th \in Solo : BodyStep(th) /\ UNCHANGED Aux
    \/ \E th \in Solo : Release(th) /\ UNCHANGED Aux
    \/ \E th \in Solo : Finish(th) /\ UNCHANGED Aux

SpecFind == InitRows /\ [][NextFind]_vars

\* the rows of a table file for which every key of the condition string-equals
\* the row's value in the column of that name
WhereAll(f, cond) ==
    IF f.kind # "csv" THEN {}
    ELSE {r \in 1..Len(f.rows) :
            \A i \in 1..Len(cond) :
                /\ HasCol(f, cond[i].c)
                /\ PyStr(ReadCsv(f).rows[r][ColIdx(f.cols, cond[i].c)]) = PyStr(cond[i].v)}

\* a returned row with every value in its string form
RowText(row) == [i \in 1..Len(row) |-> Item(row[i].c, PyStr(row[i].v))]

RowsText(rows) == [r \in 1..Len(rows) |-> RowText(rows[r])]

\* the rows of the file that satisfy the condition, in file order
Satisfying(f, cond) ==
    IF f.kind # "csv" THEN <<>>
    ELSE RowsText(Records(Filter(ReadCsv(f), WhereAll(f, cond))))

\* C14: find_all(condition) returns, in file order, exactly the rows for which
\* every key of the condition string-equals the row's value in the column of
\* that name, for every condition, one with a key naming an absent column and
\* the empty one included; find_one returns the first of them, or None
C14_FindAll ==
    \A th \in Threads :
        (pc[th] = "done" /\ op[th].name \in {"find_all", "find_one"})
        => LET want == Satisfying(hist[th].pre, op[th].data)
               got  == pend[th].val
           IN  IF op[th].name = "find_all"
               THEN got.t = "rows" /\ RowsText(got.v) = want
               ELSE IF want = <<>> THEN got = RNone
                    ELSE got.t = "row" /\ RowText(got.v) = want[1]

----------------------------------------------------------------------------
(* The legacy update and delete of one caller, by condition                *)

\* the number of column n given as text
CondNText == <<Item("n", Str(<<"1">>))>>

QueryConds == {<<>>, CondA, CondA1, CondN3, CondNText, CondAbsent}

QueryCalls ==
    {C_update_where("users", c, UpdN) : c \in QueryConds}
        \cup {C_delete(NoTable, c, "users") : c \in QueryConds}

MaxQueryCalls == 1

CallQuery(th) ==
    /\ ncalls < MaxQueryCalls
    /\ \E o \in QueryCalls : Call(th, o)
    /\ UNCHANGED Aux

NextQuery ==
    \/ \E th \in Solo : CallQuery(th)
    \/ \E th \in Solo : Acquire(th) /\ UNCHANGED Aux
    \/ \E th \in Solo : BodyStep(th) /\ UNCHANGED Aux
    \/ \E th \in Solo : InRead(th) /\ UNCHANGED Aux
    \/ \E th \in Solo : ReleaseInner(th) /\ UNCHANGED Aux
    \/ \E th \in Solo : LegacyMid(th) /\ UNCHANGED Aux
    \/ \E th \in Solo : MkTemp(th) /\ UNCHANGED Aux
    \/ \E th \in Solo : WriteTemp(th) /\ UNCHANGED Aux
    \/ \E th \in Solo : Move(th) /\ UNCHANGED Aux
    \/ \E th \in Solo : Release(th) /\ UNCHANGED Aux
    \/ \E th \in Solo : Finish(th) /\ UNCHANGED Aux

SpecQuery == InitRows /\ [][NextQuery]_vars

\* the rows of the file before the call that the file after it holds with
\* another text, and those it holds no more
Modified(pre, post) ==
    {r \in 1..Len(pre.rows) :
        post.kind # "csv" \/ r > Len(post.rows) \/ post.rows[r] # pre.rows[r]}

Removed(pre, post) ==
    {r \in 1..Len(pre.rows) :
        post.kind # "csv" \/ \A q \in 1..Len(post.rows) : post.rows[q] # pre.rows[r]}

\* C15: the rows the legacy update(condition, updates) modifies and the rows
\* delete(condition) removes are the rows find_all(condition) returns for the
\* same state of the table
C15_OnePredicate ==
    \A th \in Threads :
        ( /\ pc[th] = "done"
          /\ Kernel(op[th]) \in {"legacy_update", "delete"}
          /\ hist[th].pre.kind = "csv" )
        => LET pre   == hist[th].pre
               found == StrCondMask(ReadCsv(pre), op[th].data)
           IN  IF Kernel(op[th]) = "delete"
               THEN Removed(pre, hist[th].post) = found
               ELSE Modified(pre, hist[th].post) = found

----------------------------------------------------------------------------
(* read_by_id of one caller                                                *)

\* a table whose first row has no id: id,n / ,1 / B,2
NullIdFile == Csv(<<"id", "n">>, << <<(<<>>), (<<"1">>)>>, <<(<<"B">>), (<<"2">>)>> >>)

ByIdValues == {IdA, IdB, IdZ, IntV(1), Str(<<"1">>), IntV(2), Str(Txt_nan)}

ByIdCalls == {C_read_by_id("users", v, c) : v \in ByIdValues, c \in {"id", "n", "zz"}}

MaxByIdCalls == 1

InitById ==
    \E f \in {NoFile, UsersFile, DupFile, NullIdFile} :
        Start([t \in Tables |-> IF t = "users" THEN f ELSE NoFile])

CallById(th) ==
    /\ ncalls < MaxByIdCalls
    /\ \E o \in ByIdCalls : Call(th, o)
    /\ UNCHANGED Aux

NextById ==
    \/ \E th \in Solo : CallById(th)
    \/ \E th \in Solo : Acquire(th) /\ UNCHANGED Aux
    \/ \E th \in Solo : BodyStep(th) /\ UNCHANGED Aux
    \/ \E th \in Solo : Release(th) /\ UNCHANGED Aux
    \/ \E th \in Solo : Finish(th) /\ UNCHANGED Aux

SpecById == InitById /\ [][NextById]_vars

\* the rows of the file whose value in column c is not null and, converted to
\* a string, equals the string form of idv
SameId(f, c, idv) ==
    IF f.kind # "csv" \/ ~HasCol(f, c) THEN {}
    ELSE {r \in 1..Len(f.rows) :
            /\ ~IsNull(ReadCsv(f).rows[r][ColIdx(f.cols, c)])
            /\ PyStr(ReadCsv(f).rows[r][ColIdx(f.cols, c)]) = PyStr(idv)}

\* C16: read_by_id returns the first row in file order whose id_column value,
\* converted to a string, equals the string form of id_value, and None,
\* without an exception, when no row matches, the file does not exist or the
\* table has no id_column; a row whose id_column is null is never returned
\* for an id_value that is not null
C16_ReadById ==
    \A th \in Threads :
        (pc[th] = "done" /\ op[th].name = "read_by_id")
        => LET pre == hist[th].pre
               hit == SameId(pre, op[th].col, op[th].idv)
           IN  /\ ~pend[th].exc
               /\ IF hit = {} THEN pend[th].val = RNone
                  ELSE /\ pend[th].val.t = "row"
                       /\ RowText(pend[th].val.v)
                              = RowText(RowDict(ReadCsv(pre), FirstOf(hit)))

----------------------------------------------------------------------------
(* create followed by read_by_id, one caller                               *)

\* records of strings, integers and booleans with the id C
RecFlag == <<Item("id", IdC), Item("n", IntV(3)), Item("ok", BoolV(TRUE))>>

RecCode == <<Item("id", IdC), Item("n", IntV(3)), Item("code", Str(<<"0", "7">>))>>

TripRecords == {RowC, RecFlag, RecCode}

TripCalls ==
    {C_create("users", d) : d \in TripRecords} \cup {C_read_by_id("users", IdC, "id")}

MaxTripCalls == 2

InitTrip ==
    \E f \in {NoFile, UsersFile} :
        Start([t \in Tables |-> IF t = "users" THEN f ELSE NoFile])

CallTrip(th) ==
    /\ ncalls < MaxTripCalls
    /\ \E o \in TripCalls : Call(th, o)
    /\ UNCHANGED Aux

NextTrip ==
    \/ \E th \in Solo : CallTrip(th)
    \/ \E th \in Solo : AcquireLogged(th)
    \/ \E th \in Solo : BodyStep(th) /\ UNCHANGED Aux
    \/ \E th \in Solo : MkTemp(th) /\ UNCHANGED Aux
    \/ \E th \in Solo : WriteTemp(th) /\ UNCHANGED Aux
    \/ \E th \in Solo : Move(th) /\ UNCHANGED Aux
    \/ \E th \in Solo : Release(th) /\ UNCHANGED Aux
    \/ \E th \in Solo : Finish(th) /\ UNCHANGED Aux

SpecTrip == InitTrip /\ [][NextTrip]_vars

\* the caller created a record and now reads it by its id
ReadsCreated(th) ==
    /\ pc[th] = "done"
    /\ op[th].name = "read_by_id"
    /\ Len(log.calls) = 2
    /\ log.calls[1].name = "create"
    /\ PyStr(DictGet(log.calls[1].data, "id")) = PyStr(op[th].idv)

\* C17: a record of strings, integers and booleans whose id is not in the
\* table, created and then read by its id, comes back as a row that has the
\* record's columns with values whose text is the text of the originals, and
\* a boolean true is stored as the lowercase text "true"
C17_RoundTrip ==
    \A th \in Threads :
        ReadsCreated(th)
        => LET rec  == log.calls[1].data
               got  == pend[th].val
               disk == hist[th].pre
           IN  /\ got.t = "row"
               /\ \A k \in 1..Len(rec) :
                     /\ DictHas(got.v, rec[k].c)
                     /\ PyStr(DictGet(got.v, rec[k].c)) = PyStr(rec[k].v)
                     /\ rec[k].v = BoolV(TRUE) =>
                            FieldText(disk, Len(disk.rows), rec[k].c) = <<Txt_true>>

----------------------------------------------------------------------------
(* The registry of file locks: get_file_lock called by several threads     *)

MaxLockCalls == 4

\* a lock manager that lets every thread in
ManagerOpen(owner) == TRUE

\* _lock_manager is a threading.Lock (line 23): entering waits until it is free
ManagerFree(owner) == owner = NoThread

\* get_file_lock(file_path) is called (line 26)
GetFileLock(th) ==
    /\ pc[th] = "idle"
    /\ ncalls < MaxLockCalls
    /\ \E p \in Tables :
          op' = [op EXCEPT ![th] = [NoCall EXCEPT !.name = "get_file_lock", !.tn = p]]
    /\ pc' = [pc EXCEPT ![th] = "gl_enter"]
    /\ ncalls' = ncalls + 1
    /\ UNCHANGED <<file, lockOwner, lockCount, df, tmp, pend, hist, crashed,
                   issued, held, log, Registry, Utils>>

\* with _lock_manager: (line 28)
EnterManager(th) ==
    /\ pc[th] = "gl_enter"
    /\ ManagerFree(lockManager)
    /\ lockManager' = th
    /\ pc' = [pc EXCEPT ![th] = "gl_test"]
    /\ UNCHANGED <<file, lockOwner, lockCount, op, df, tmp, pend, hist, crashed,
                   ncalls, issued, held, log, fileLocks, lockObjs, returned, Utils>>

\* if file_path not in _file_locks: (line 29)
TestEntry(th) ==
    /\ pc[th] = "gl_test"
    /\ pc' = [pc EXCEPT ![th] =
                 IF fileLocks[op[th].tn] = NoLock THEN "gl_new" ELSE "gl_return"]
    /\ UNCHANGED <<file, lockOwner, lockCount, op, df, tmp, pend, hist, crashed,
                   ncalls, issued, held, log, Registry, Utils>>

\* _file_locks[file_path] = threading.RLock() (line 30)
NewLock(th) ==
    /\ pc[th] = "gl_new"
    /\ lockObjs' = lockObjs + 1
    /\ fileLocks' = [fileLocks EXCEPT ![op[th].tn] = lockObjs + 1]
    /\ pc' = [pc EXCEPT ![th] = "gl_return"]
    /\ UNCHANGED <<file, lockOwner, lockCount, op, df, tmp, pend, hist, crashed,
                   ncalls, issued, held, log, lockManager, returned, Utils>>

\* a return that keeps the caller inside "with _lock_manager"
ManagerKept(th) == th

\* the with block of line 28 is left when get_file_lock returns
LeaveManager(th) == NoThread

\* where get_file_lock returns to: its caller outside the store, or _get_lock
\* (line 73) and from there the lock.acquire() of _locked_operation (line 83)
AfterLookup(o) == IF o.name = "get_file_lock" THEN "idle" ELSE "acquire"

\* return _file_locks[file_path] (line 31), which leaves the with block
ReturnLock(th) ==
    /\ pc[th] = "gl_return"
    /\ returned' = returned \cup
                      {[th |-> th, path |-> op[th].tn, lock |-> fileLocks[op[th].tn],
                        via |-> IF op[th].dflt = NoTable THEN "table" ELSE "file"]}
    /\ lockManager' = LeaveManager(th)
    /\ pc' = [pc EXCEPT ![th] = AfterLookup(op[th])]
    /\ UNCHANGED <<file, lockOwner, lockCount, op, df, tmp, pend, hist, crashed,
                   ncalls, issued, held, log, fileLocks, lockObjs, Utils>>

NextLocks ==
    \/ \E th \in Threads : GetFileLock(th)
    \/ \E th \in Threads : EnterManager(th)
    \/ \E th \in Threads : TestEntry(th)
    \/ \E th \in Threads : NewLock(th)
    \/ \E th \in Threads : ReturnLock(th)

SpecLocks == InitOrder /\ [][NextLocks]_vars

\* the paths that have an entry in _file_locks
LockedPaths == {p \in Tables : fileLocks[p] # NoLock}

\* C18: under any interleaving of get_file_lock calls there is one lock object
\* per path ever created, every call for a path returned the object that is
\* registered for it now, and no entry was replaced or removed: the RLock
\* objects created are as many as the paths that have an entry
C18_OneLockPerPath ==
    /\ lockObjs = Cardinality(LockedPaths)
    /\ \A r \in returned : r.lock # NoLock /\ fileLocks[r.path] = r.lock

\* two threads have got the lock of one path, and both paths have an entry
C18_Witness ==
    /\ LockedPaths = Tables
    /\ \E a \in returned : \E b \in returned : a.th # b.th /\ a.path = b.path

----------------------------------------------------------------------------
(* The legacy append and update of a handler with a default file, called   *)
(* by two threads; every thread that can take a step eventually takes one  *)

ReentCalls ==
    { C_append("users", RowC, NoTable),
      C_update_where("users", CondA, UpdN) }

MaxReentCalls == 2

CallReent(th) ==
    /\ ncalls < MaxReentCalls
    /\ \E o \in ReentCalls : Call(th, o)
    /\ UNCHANGED Aux

\* the steps of a call that is under way
Progress(th) ==
    \/ Acquire(th) /\ UNCHANGED Aux
    \/ InRead(th) /\ UNCHANGED Aux
    \/ ReleaseInner(th) /\ UNCHANGED Aux
    \/ LegacyMid(th) /\ UNCHANGED Aux
    \/ MkTemp(th) /\ UNCHANGED Aux
    \/ WriteTemp(th) /\ UNCHANGED Aux
    \/ Move(th) /\ UNCHANGED Aux
    \/ Release(th) /\ UNCHANGED Aux
    \/ Finish(th) /\ UNCHANGED Aux

NextReent ==
    \/ \E th \in Workers : CallReent(th)
    \/ \E th \in Workers : Progress(th)

\* every step of a call that stays possible is taken in the end
Fair(th) ==
    /\ WF_vars(Acquire(th) /\ UNCHANGED Aux)
    /\ WF_vars(InRead(th) /\ UNCHANGED Aux)
    /\ WF_vars(ReleaseInner(th) /\ UNCHANGED Aux)
    /\ WF_vars(LegacyMid(th) /\ UNCHANGED Aux)
    /\ WF_vars(MkTemp(th) /\ UNCHANGED Aux)
    /\ WF_vars(WriteTemp(th) /\ UNCHANGED Aux)
    /\ WF_vars(Move(th) /\ UNCHANGED Aux)
    /\ WF_vars(Release(th) /\ UNCHANGED Aux)
    /\ WF_vars(Finish(th) /\ UNCHANGED Aux)

SpecReent == InitInc /\ [][NextReent]_vars /\ \A th \in Workers : Fair(th)

\* a thread that acquires inside its own section holds the lock already, and a
\* thread outside every section holds no lock
ReentInv ==
    \A th \in Workers :
        /\ pc[th] \in {"in_read_acq", "in_write_acq"} =>
              /\ lockOwner[TableOf(op[th])] = th
              /\ lockCount[TableOf(op[th])] = 1
        /\ pc[th] \in {"in_read", "tocsv"} /\ IsLegacy(op[th]) =>
              lockCount[TableOf(op[th])] = 2
        /\ pc[th] \in {"idle", "done"} =>
              \A t \in Tables : lockOwner[t] # th
        /\ \A t \in Tables : lockOwner[t] = NoThread <=> lockCount[t] = 0

\* C19: a thread that holds a table's lock acquires it again without waiting:
\* the legacy append(data) and update(condition, updates) of a handler with a
\* default file, which call read() and write() inside their locked section,
\* always run to completion and return, and the lock is free for the other
\* threads once the outermost section is left
C19_Reentrant ==
    /\ []ReentInv
    /\ \A th \in Workers :
          (pc[th] = "acquire" /\ IsLegacy(op[th])) ~> (pc[th] = "done")

\* a legacy append has written its row and returned, and the other thread has
\* got the lock after it
C19_Witness ==
    \E th \in Workers :
        /\ pc[th] = "done"
        /\ Kernel(op[th]) = "legacy_append"
        /\ hist[th].moved
        /\ lockOwner["users"] \in Workers \ {th}

----------------------------------------------------------------------------
(* Operations on two tables: one thread works on scores, the other threads *)
(* on users; only the scores thread is sure to take the steps it can take *)

\* the last of the threads
ScoresThread == NumThreads

IndepCalls(th) ==
    IF th = ScoresThread
    THEN {C_create("scores", RowC), C_read_all("scores")}
    ELSE {C_create("users", RowC), C_read_all("users")}

MaxIndepCalls == 2

CallIndep(th) ==
    /\ ncalls < MaxIndepCalls
    /\ \E o \in IndepCalls(th) : Call(th, o)
    /\ UNCHANGED Aux

\* the steps of a call of the new calling convention that is under way
Section(th) ==
    \/ Acquire(th) /\ UNCHANGED Aux
    \/ BodyStep(th) /\ UNCHANGED Aux
    \/ MkTemp(th) /\ UNCHANGED Aux
    \/ WriteTemp(th) /\ UNCHANGED Aux
    \/ Move(th) /\ UNCHANGED Aux
    \/ Release(th) /\ UNCHANGED Aux
    \/ Finish(th) /\ UNCHANGED Aux

NextIndep ==
    \/ \E th \in Threads : CallIndep(th)
    \/ \E th \in Threads : Section(th)

SpecIndep == InitOrder /\ [][NextIndep]_vars /\ WF_vars(Section(ScoresThread))

\* a thread waits at the entry of its section only while another thread is
\* inside a section on the same table
IndepInv ==
    \A th \in Threads :
        ( /\ pc[th] = "acquire"
          /\ \A o \in Threads \ {th} :
                \/ pc[o] \in {"idle", "acquire", "done"}
                \/ TableOf(op[o]) # TableOf(op[th]) )
        => CanAcquire(lockOwner[TableOf(op[th])], th)

\* C20: a thread inside an operation on one table, or waiting to enter it,
\* never keeps another thread from entering and completing an operation on a
\* different table: the thread that works on scores enters and returns
\* whatever the threads that work on users do, even when they stop inside
\* their section
C20_Independent ==
    /\ []IndepInv
    /\ (pc[ScoresThread] = "acquire") ~> (pc[ScoresThread] = "done")

\* the thread on scores has created its row and returned while another thread
\* is in the middle of a write to users
C20_Witness ==
    /\ pc[ScoresThread] = "done"
    /\ hist[ScoresThread].moved
    /\ \E th \in Threads \ {ScoresThread} : pc[th] = "tocsv" /\ lockOwner["users"] = th

----------------------------------------------------------------------------
(* increment_field of one caller on a field that is empty or absent        *)

\* a table whose row A has no n: id,n / A, / B,2
NullNFile == Csv(<<"id", "n">>, << <<(<<"A">>), (<<>>)>>, <<(<<"B">>), (<<"2">>)>> >>)

FieldCalls ==
    { C_increment_field("users", IdA, "id", "n", 2),
      C_increment_field("users", IdB, "id", "n", 2),
      C_increment_field("users", IdA, "id", "pts", 2),
      C_increment_field("users", IdZ, "id", "n", 2) }

MaxFieldCalls == 2

InitField ==
    \E f \in {UsersFile, DupFile, NullNFile} :
        Start([t \in Tables |-> IF t = "users" THEN f ELSE NoFile])

CallField(th) ==
    /\ ncalls < MaxFieldCalls
    /\ \E o \in FieldCalls : Call(th, o)
    /\ UNCHANGED Aux

NextField ==
    \/ \E th \in Solo : CallField(th)
    \/ \E th \in Solo : Acquire(th) /\ UNCHANGED Aux
    \/ \E th \in Solo : BodyStep(th) /\ UNCHANGED Aux
    \/ \E th \in Solo : MkTemp(th) /\ UNCHANGED Aux
    \/ \E th \in Solo : WriteTemp(th) /\ UNCHANGED Aux
    \/ \E th \in Solo : Move(th) /\ UNCHANGED Aux
    \/ \E th \in Solo : Release(th) /\ UNCHANGED Aux
    \/ \E th \in Solo : Finish(th) /\ UNCHANGED Aux

SpecField == InitField /\ [][NextField]_vars

\* the value of the field before the call, zero when it is null or the table
\* has no such column
FieldBefore(f, r, c) ==
    IF ~HasCol(f, c) THEN 0
    ELSE IF IsNull(ReadBack(f, r, c)) THEN 0
    ELSE ReadBack(f, r, c).n

\* C21: when the row of id_value exists, increment_field returns True and the
\* row's field is afterwards its integer value plus amount, where a null field
\* and a field whose column the table does not have count as zero
C21_AbsentAsZero ==
    \A th \in Threads :
        ( /\ pc[th] = "done"
          /\ op[th].name = "increment_field"
          /\ MatchingRows(hist[th].pre, op[th].col, op[th].idv) # {} )
        => LET pre == hist[th].pre
               r   == FirstOf(MatchingRows(pre, op[th].col, op[th].idv))
           IN  /\ pend[th].val = RBool(TRUE)
               /\ HasCol(hist[th].post, op[th].field)
               /\ ReadBack(hist[th].post, r, op[th].field).k \in {"int", "float"}
               /\ ReadBack(hist[th].post, r, op[th].field).n
                      = FieldBefore(pre, r, op[th].field) + op[th].amount

----------------------------------------------------------------------------
(* The reading operations and the files                                     *)

ReadNames ==
    {"read_all", "read_by_id", "find_all", "find_one", "find", "count", "exists",
     "read", "generate_id"}

\* a step taken while a reading operation is under way leaves every table file
\* as it is and makes no temp file
ReadOnlyStep ==
    \A th \in Threads : op[th].name \in ReadNames => file' = file /\ tmp' = tmp

\* what the reading operations return for a table whose file does not exist
AbsentResults ==
    \A th \in Threads :
        ( /\ pc[th] = "done"
          /\ Resolvable(op[th])
          /\ Kernel(op[th]) # "nothing"
          /\ file[TableOf(op[th])] = NoFile )
        => /\ op[th].name \in {"read_all", "find_all"} => pend[th].val = RRows(<<>>)
           /\ op[th].name \in {"read_by_id", "find_one"} => pend[th].val = RNone

\* C22: read_all, read_by_id, find_all, find_one, find, count, exists, read and
\* generate_id never create, rewrite or delete a table file; on a table whose
\* file does not exist read_all and find_all return an empty list, read_by_id
\* and find_one return None, and the file still does not exist afterwards
C22_ReadsKeepStorage == [][ReadOnlyStep]_vars /\ []AbsentResults

\* a find_one has returned None for a table whose file does not exist
C22_Witness ==
    \E th \in Threads :
        /\ pc[th] = "done"
        /\ op[th].name = "find_one"
        /\ Resolvable(op[th])
        /\ file["users"] = NoFile
        /\ pend[th].val = RNone

----------------------------------------------------------------------------
(* The hold counts of the table locks in the mixed workload                 *)

\* C23: for every operation and every outcome of its body, also an exception
\* inside the locked section, the caller's hold count on the table lock at the
\* return is its hold count at the call: a thread outside every operation
\* holds no table lock, read() and write() called inside a legacy section
\* return with the one hold of that section, and a lock has an owner exactly
\* when its hold count is not zero
C23_HoldCountRestored ==
    /\ \A th \in Threads :
          /\ pc[th] \in {"idle", "done"} => \A t \in Tables : lockOwner[t] # th
          /\ pc[th] \in {"legacy_mid", "release"} =>
                /\ lockOwner[TableOf(op[th])] = th
                /\ lockCount[TableOf(op[th])] = 1
    /\ \A t \in Tables : (lockOwner[t] = NoThread) <=> (lockCount[t] = 0)

\* an operation has failed inside its locked section and returned, and
\* another thread holds the lock of that table after it
C23_Witness ==
    \E a \in Threads : \E b \in Threads :
        /\ a # b
        /\ pc[a] = "done"
        /\ hist[a].faultAt # ""
        /\ lockOwner[TableOf(op[a])] = b

----------------------------------------------------------------------------
(* Operations of two threads on two tables, each with its lookup of the     *)
(* table lock in the registry; every thread takes the steps it can take     *)

\* a DataFrame of one column and one row
OneCell == [cols |-> <<"id">>, rows |-> << <<IdC>> >>]

DeadCalls == {C_read_all("users"), C_write(NoTable, OneCell, "scores")}

MaxDeadCalls == 2

\* an operation with a table_name is called: _locked_operation starts with
\* _get_lock, which calls get_file_lock (lines 71-73, 82)
CallVia(th) ==
    /\ pc[th] = "idle"
    /\ ncalls < MaxDeadCalls
    /\ \E o \in DeadCalls : op' = [op EXCEPT ![th] = o]
    /\ pc' = [pc EXCEPT ![th] = "gl_enter"]
    /\ ncalls' = ncalls + 1
    /\ hist' = [hist EXCEPT ![th] = HistInit]
    /\ pend' = [pend EXCEPT ![th] = PendInit]
    /\ UNCHANGED <<file, lockOwner, lockCount, df, tmp, crashed, Aux>>

\* the steps of an operation that is under way, its lookup of the lock included
Steps(th) ==
    \/ EnterManager(th)
    \/ TestEntry(th)
    \/ NewLock(th)
    \/ ReturnLock(th)
    \/ Section(th)

NextDead ==
    \/ \E th \in Workers : CallVia(th)
    \/ \E th \in Workers : Steps(th)

SpecDead == InitOrder /\ [][NextDead]_vars /\ \A th \in Workers : WF_vars(Steps(th))

\* the tables whose lock a thread holds
HeldBy(th) == {t \in Tables : lockOwner[t] = th}

\* no thread holds the locks of two tables, and a thread that waits for a table
\* lock is not inside the lock manager
NoHoldAndWait ==
    \A th \in Workers :
        /\ Cardinality(HeldBy(th)) <= 1
        /\ pc[th] = "acquire" => lockManager # th

\* C24: no thread ever holds the locks of two different tables at once, the
\* registry lock is never held while a thread waits for a table lock, and
\* every operation that was called acquires its lock and returns
C24_DeadlockFree ==
    /\ []NoHoldAndWait
    /\ \A th \in Workers : (pc[th] = "gl_enter") ~> (pc[th] = "done")

\* a thread waits for the lock of a table that the other thread holds, and
\* the lock manager is free
C24_Witness ==
    \E a \in Workers : \E b \in Workers :
        /\ a # b
        /\ pc[a] = "acquire"
        /\ lockOwner[TableOf(op[a])] = b
        /\ lockManager = NoThread

----------------------------------------------------------------------------
(* The lock of a file under the two calling conventions                     *)

MaxConvCalls == 3

\* CSVHandler(csv_file): self._lock = get_file_lock(str(self.file_path))
\* (lines 51-55)
NewDefaultHandler(th) ==
    /\ pc[th] = "idle"
    /\ ncalls < MaxConvCalls
    /\ \E t \in Tables :
          op' = [op EXCEPT ![th] = [NoCall EXCEPT !.name = "get_file_lock",
                                                  !.dflt = FileName(t),
                                                  !.tn = PathOfFile(FileName(t))]]
    /\ pc' = [pc EXCEPT ![th] = "gl_enter"]
    /\ ncalls' = ncalls + 1
    /\ UNCHANGED <<file, lockOwner, lockCount, df, tmp, pend, hist, crashed, Aux>>

\* _get_lock(table_name) of a handler used by table name (lines 71-73)
GetLockOfTable(th) ==
    /\ pc[th] = "idle"
    /\ ncalls < MaxConvCalls
    /\ \E t \in Tables :
          op' = [op EXCEPT ![th] = [NoCall EXCEPT !.name = "get_file_lock",
                                                  !.tn = PathOfTable(t)]]
    /\ pc' = [pc EXCEPT ![th] = "gl_enter"]
    /\ ncalls' = ncalls + 1
    /\ UNCHANGED <<file, lockOwner, lockCount, df, tmp, pend, hist, crashed, Aux>>

NextConv ==
    \/ \E th \in Threads : NewDefaultHandler(th)
    \/ \E th \in Threads : GetLockOfTable(th)
    \/ \E th \in Threads : EnterManager(th)
    \/ \E th \in Threads : TestEntry(th)
    \/ \E th \in Threads : NewLock(th)
    \/ \E th \in Threads : ReturnLock(th)

SpecConv == InitOrder /\ [][NextConv]_vars

\* C25: a handler constructed with the default file of a table and a handler
\* used with the table's name resolve to the same path and get the same lock
\* object, so that their operations on the file exclude each other
C25_SameLock ==
    \A t \in Tables :
        /\ PathOfFile(FileName(t)) = PathOfTable(t)
        /\ \A a \in returned : \A b \in returned :
              (a.path = PathOfFile(FileName(t)) /\ b.path = PathOfTable(t))
                  => a.lock = b.lock

\* one thread has the lock of users.csv from a default-file handler and the
\* other has it by the table name
C25_Witness ==
    \E a \in returned : \E b \in returned :
        /\ a.th # b.th
        /\ a.via = "file" /\ a.path = PathOfFile(FileName("users"))
        /\ b.via = "table" /\ b.path = PathOfTable("users")

----------------------------------------------------------------------------
(* find, count and exists against read_all and find_all (specification     *)
(* SpecApi)                                                                *)

\* the table a handler is bound to, by table_name or by its default file
BoundTable(o) == IF o.tn # NoTable THEN o.tn ELSE o.dflt

\* what read_all returns for table file f
WholeTable(f) == IF f.kind = "csv" /\ ReadOk(f) THEN Records(ReadCsv(f)) ELSE <<>>

\* what find_all(condition) returns for table file f
Matching(o, f) ==
    IF f.kind = "csv" /\ ReadOk(f) THEN BodyFindAll(o, f).val.v ELSE <<>>

\* the rows find, count and exists are to be computed from
Expected(o, f) == IF o.hasCond THEN Matching(o, f) ELSE WholeTable(f)

\* C27: on a handler bound to a table by its default file or by table_name,
\* find() without a condition returns the rows read_all returns and count()
\* the number of them; with a condition find returns what find_all returns,
\* count its length and exists whether it is not empty
C27_FindIsReadAll ==
    \A th \in Threads :
        (/\ pc[th] = "done"
         /\ op[th].name \in {"find", "count", "exists"}
         /\ op[th].tn # NoTable \/ op[th].dflt # NoTable
         /\ hist[th].faultAt = "")
        => LET want == Expected(op[th], file[BoundTable(op[th])])
           IN  CASE op[th].name = "find"   -> pend[th].val = RRows(want)
                 [] op[th].name = "count"  -> pend[th].val = RInt(Len(want))
                 [] op[th].name = "exists" -> pend[th].val = RBool(Len(want) > 0)

----------------------------------------------------------------------------
(* AnswerEvaluator._update_session_score called by several threads for one *)
(* session (specification SpecScore).  sessions.csv is the file of the     *)
(* handler get_sessions_handler() returns; it is kept as the first table   *)
(* of the store.                                                           *)

SessionsTable == "users"

SessionsFile ==
    Csv(<<"session_id", "score">>,
        << <<(<<"S", "1">>), (<<"1", "0">>)>>, <<(<<"S", "2">>), (<<"7">>)>> >>)

\* the score of session S1 before any call
InitialScore == PyInt(SessionsFile.rows[1][2])

\* {"session_id": session_id}
CondS == <<Item("session_id", Str(<<"S", "1">>))>>

\* the points a thread passes
PointsOf(th) == th + 1

\* calls per thread
ScoreCalls == 1

InitScore == Start([t \in Tables |-> IF t = SessionsTable THEN SessionsFile ELSE NoFile])

\* session = self.sessions_handler.find_one({"session_id": session_id})
\* (line 375)
FindSession(th) ==
    /\ issued[th] < ScoreCalls
    /\ Call(th, [C_query("find_one", SessionsTable, TRUE, CondS, NoTable)
                    EXCEPT !.amount = PointsOf(th)])
    /\ issued' = [issued EXCEPT ![th] = @ + 1]
    /\ UNCHANGED <<held, log, Registry, Utils>>

\* session.get("score", 0)
CurrentScore(session) ==
    IF DictHas(session, "score") THEN DictGet(session, "score").n ELSE 0

\* if session: new_score = current_score + points; the call of update
\* (lines 376-383); return False when no session was found (line 384)
UpdateScore(th) ==
    /\ pc[th] = "done"
    /\ op[th].name = "find_one"
    /\ IF pend[th].val.t = "row"
       THEN /\ op' = [op EXCEPT ![th] =
                         C_update_where(SessionsTable, CondS,
                             <<Item("score",
                                    IntV(CurrentScore(pend[th].val.v)
                                         + op[th].amount))>>)]
            /\ pc' = [pc EXCEPT ![th] = "acquire"]
       ELSE /\ op' = [op EXCEPT ![th] = NoCall]
            /\ pc' = [pc EXCEPT ![th] = "idle"]
    /\ pend' = [pend EXCEPT ![th] = PendInit]
    /\ hist' = [hist EXCEPT ![th] = HistInit]
    /\ UNCHANGED <<file, lockOwner, lockCount, df, tmp, crashed, ncalls, Aux>>

\* _update_session_score returns what update returned
ReturnScore(th) ==
    /\ op[th].name = "update"
    /\ Finish(th)
    /\ UNCHANGED Aux

NextScore ==
    \/ \E th \in Threads : FindSession(th)
    \/ \E th \in Threads : Acquire(th) /\ UNCHANGED Aux
    \/ \E th \in Threads : BodyStep(th) /\ UNCHANGED Aux
    \/ \E th \in Threads : UpdateScore(th)
    \/ \E th \in Threads : InRead(th) /\ UNCHANGED Aux
    \/ \E th \in Threads : ReleaseInner(th) /\ UNCHANGED Aux
    \/ \E th \in Threads : LegacyMid(th) /\ UNCHANGED Aux
    \/ \E th \in Threads : MkTemp(th) /\ UNCHANGED Aux
    \/ \E th \in Threads : WriteTemp(th) /\ UNCHANGED Aux
    \/ \E th \in Threads : Move(th) /\ UNCHANGED Aux
    \/ \E th \in Threads : Release(th) /\ UNCHANGED Aux
    \/ \E th \in Threads : ReturnScore(th)

SpecScore == InitScore /\ [][NextScore]_vars

\* the points passed by the calls made so far
RECURSIVE PointsPassed(_)
PointsPassed(n) == IF n = 0 THEN 0 ELSE issued[n] * PointsOf(n) + PointsPassed(n - 1)

\* the sessions table whose session S1 has score v
SessionsWith(v) ==
    Csv(<<"session_id", "score">>,
        << <<(<<"S", "1">>), IntStr(v)>>, <<(<<"S", "2">>), (<<"7">>)>> >>)

\* C28: for every interleaving of the threads that call _update_session_score
\* for one session, once all calls have returned the stored score of the
\* session is its initial score plus the sum of the points passed
C28_NoPointsLost ==
    (\A th \in Threads : pc[th] = "idle" /\ issued[th] = ScoreCalls)
        => file[SessionsTable] = SessionsWith(InitialScore + PointsPassed(NumThreads))

----------------------------------------------------------------------------
(* RateLimiter of backend/app/utils/rate_limiter.py: threads that call     *)
(* is_allowed and reset while the clock runs (specification SpecLimit)     *)

\* max_requests and window_seconds of every call
MaxRequests == 1

WindowSeconds == 2

\* the clock stops here
MaxTime == 3

MaxLimCalls == 3

LimVars == <<clock, requests, limLock, lim, served>>

NotLimVars == <<file, lockOwner, lockCount, pc, op, df, tmp, pend, hist, crashed,
                issued, held, log, Registry, retry>>

\* time passes
Tick ==
    /\ clock < MaxTime
    /\ clock' = clock + 1
    /\ UNCHANGED <<requests, limLock, lim, served, ncalls, NotLimVars>>

\* is_allowed(client_id, max_requests, window_seconds):
\* current_time = time.time() (line 57)
IsAllowed(th) ==
    /\ lim[th].pc = "idle"
    /\ ncalls < MaxLimCalls
    /\ \E c \in Clients :
          lim' = [lim EXCEPT ![th] = [pc |-> "clean_time", client |-> c, now |-> clock,
                                      cutoff |-> 0]]
    /\ ncalls' = ncalls + 1
    /\ UNCHANGED <<clock, requests, limLock, served, NotLimVars>>

\* _clean_old_requests: current_time = time.time(); cutoff = current_time -
\* window_seconds (lines 31-32)
CleanTime(th) ==
    /\ lim[th].pc = "clean_time"
    /\ lim' = [lim EXCEPT ![th].cutoff = clock - WindowSeconds, ![th].pc = "clean_enter"]
    /\ UNCHANGED <<clock, requests, limLock, served, ncalls, NotLimVars>>

\* with self._lock: (lines 34, 60 and 77)
EnterLimiter(th) ==
    /\ lim[th].pc \in {"clean_enter", "check_enter", "reset_enter"}
    /\ limLock = NoThread
    /\ limLock' = th
    /\ lim' = [lim EXCEPT ![th].pc = CASE lim[th].pc = "clean_enter" -> "clean"
                                       [] lim[th].pc = "check_enter" -> "check"
                                       [] lim[th].pc = "reset_enter" -> "reset"]
    /\ UNCHANGED <<clock, requests, served, ncalls, NotLimVars>>

\* [ts for ts in self._requests[client_id] if ts > cutoff] (lines 35-38)
Recent(list, cutoff) == SelectSeq(list, LAMBDA ts : ts > cutoff)

CleanOld(th) ==
    /\ lim[th].pc = "clean"
    /\ requests' = [requests EXCEPT ![lim[th].client] = Recent(@, lim[th].cutoff)]
    /\ limLock' = NoThread
    /\ lim' = [lim EXCEPT ![th].pc = "check_enter"]
    /\ UNCHANGED <<clock, served, ncalls, NotLimVars>>

\* a call of is_allowed that has returned
Verdict(c, ts, ok, pre, post) ==
    [kind |-> "call", client |-> c, ts |-> ts, ok |-> ok, pre |-> pre, post |-> post]

\* if request_count >= max_requests (line 63)
Full(list) == Len(list) >= MaxRequests

\* lines 61-73: refuse, or append current_time and allow
Check(th) ==
    LET c == lim[th].client
    IN  /\ lim[th].pc = "check"
        /\ IF Full(requests[c])
           THEN /\ served' = Append(served,
                                 Verdict(c, lim[th].now, FALSE, requests[c], requests[c]))
                /\ UNCHANGED requests
           ELSE /\ requests' = [requests EXCEPT ![c] = Append(@, lim[th].now)]
                /\ served' = Append(served,
                                 Verdict(c, lim[th].now, TRUE, requests[c],
                                         Append(requests[c], lim[th].now)))
        /\ limLock' = NoThread
        /\ lim' = [lim EXCEPT ![th] = LimIdle]
        /\ UNCHANGED <<clock, ncalls, NotLimVars>>

\* reset(client_id) is called (line 75)
CallReset(th) ==
    /\ lim[th].pc = "idle"
    /\ ncalls < MaxLimCalls
    /\ \E c \in Clients :
          lim' = [lim EXCEPT ![th] = [LimIdle EXCEPT !.pc = "reset_enter", !.client = c]]
    /\ ncalls' = ncalls + 1
    /\ UNCHANGED <<clock, requests, limLock, served, NotLimVars>>

\* del self._requests[client_id] (lines 78-79); a missing key reads as the
\* empty list of the defaultdict
Reset(th) ==
    /\ lim[th].pc = "reset"
    /\ requests' = [requests EXCEPT ![lim[th].client] = <<>>]
    /\ served' = Append(served, [Verdict(lim[th].client, 0, TRUE, <<>>, <<>>)
                                    EXCEPT !.kind = "reset"])
    /\ limLock' = NoThread
    /\ lim' = [lim EXCEPT ![th] = LimIdle]
    /\ UNCHANGED <<clock, ncalls, NotLimVars>>

NextLimit ==
    \/ Tick
    \/ \E th \in Threads : IsAllowed(th)
    \/ \E th \in Threads : CleanTime(th)
    \/ \E th \in Threads : EnterLimiter(th)
    \/ \E th \in Threads : CleanOld(th)
    \/ \E th \in Threads : Check(th)
    \/ \E th \in Threads : CallReset(th)
    \/ \E th \in Threads : Reset(th)

SpecLimit == InitOrder /\ [][NextLimit]_vars

\* the calls of client c that returned before the i-th and after the last
\* reset of c before the i-th
Since(c, i) ==
    {j \in 1..(i - 1) :
        /\ served[j].kind = "call" /\ served[j].client = c
        /\ \A k \in (j + 1)..(i - 1) :
              ~(served[k].kind = "reset" /\ served[k].client = c)}

\* the allowed calls among them
AllowedSince(c, i) == {j \in Since(c, i) : served[j].ok}

\* the allowed calls of client c since its last reset whose timestamps lie in
\* the interval of length window_seconds that starts at t
InWindow(c, t) ==
    {j \in AllowedSince(c, Len(served) + 1) :
        t <= served[j].ts /\ served[j].ts < t + WindowSeconds}

\* the allowed timestamps that are inside the window of the i-th returned call
StillInside(i) ==
    {j \in AllowedSince(served[i].client, i) :
        served[j].ts > served[i].ts - WindowSeconds}

\* C29: for every client the allowed calls whose timestamps lie within one
\* interval of length window_seconds are at most max_requests; a call is
\* refused exactly when max_requests allowed timestamps of its client are still
\* inside the window; a refused call records nothing; the first call of a
\* client after reset(client) is allowed
C29_RateBound ==
    /\ \A c \in Clients : \A t \in 0..MaxTime :
          Cardinality(InWindow(c, t)) <= MaxRequests
    /\ \A i \in 1..Len(served) :
          served[i].kind = "call" =>
              /\ ~served[i].ok <=> Cardinality(StillInside(i)) >= MaxRequests
              /\ ~served[i].ok => served[i].post = served[i].pre
              /\ (i > 1 /\ served[i - 1].kind = "reset"
                       /\ served[i - 1].client = served[i].client) => served[i].ok

----------------------------------------------------------------------------
(* retry_async of backend/app/utils/retry.py, called with every max_attempts *)
(* up to MaxAttempts on a func whose attempts end in every way              *)
(* (specification SpecRetry)                                                *)

RETRYABLE_STATUS_CODES == {408, 429, 500, 502, 503, 504}

\* the status codes func raises HTTPStatusError with
StatusSamples == RETRYABLE_STATUS_CODES \cup {404}

\* settings.API_RETRY_ATTEMPTS
ApiRetryAttempts == 3

MaxAttempts == 3

\* max_attempts = None
NoAttempts == 0

NotRetryVars == <<file, lockOwner, lockCount, pc, op, df, tmp, pend, hist, crashed,
                  issued, held, log, Registry, clock, requests, limLock, lim, served>>

\* max_attempts = max_attempts or settings.API_RETRY_ATTEMPTS (line 61)
EffectiveAttempts(m) == IF m = NoAttempts THEN ApiRetryAttempts ELSE m

\* lines 61-66
CallRetry ==
    /\ retry.pc = "idle"
    /\ \E m \in {NoAttempts} \cup 1..MaxAttempts :
          retry' = [RetryIdle EXCEPT !.pc = "loop", !.max = EffectiveAttempts(m)]
    /\ ncalls' = ncalls + 1
    /\ UNCHANGED NotRetryVars

\* for attempt in range(1, max_attempts + 1): (line 68)
NextAttempt ==
    /\ retry.pc = "loop"
    /\ retry' = IF retry.attempt < retry.max
                THEN [retry EXCEPT !.attempt = @ + 1, !.pc = "call"]
                ELSE [retry EXCEPT !.pc = "raise_last"]
    /\ UNCHANGED <<ncalls, NotRetryVars>>

\* a status that is retried whatever its code
AnyStatus(code) == TRUE

\* if e.response.status_code in RETRYABLE_STATUS_CODES (line 87)
RetryableStatus(code) == code \in RETRYABLE_STATUS_CODES

\* the except clause that takes the exception keeps it in last_exception
Retried(e) == e.kind = "retryable" \/ (e.kind = "status" /\ RetryableStatus(e.code))

\* the ways an attempt can end
Outcomes(attempt) ==
    {Outcome("ok", 0, attempt), Outcome("retryable", 0, attempt),
     Outcome("other", 0, attempt)}
    \cup {Outcome("status", code, attempt) : code \in StatusSamples}

\* return await func(*args, **kwargs) and the except clauses (lines 69-100)
Attempt ==
    /\ retry.pc = "call"
    /\ \E e \in Outcomes(retry.attempt) :
          retry' =
             IF e.kind = "ok"
             THEN [retry EXCEPT !.calls = Append(@, e), !.out = Ended("return", e),
                                !.pc = "finished"]
             ELSE IF Retried(e)
             THEN [retry EXCEPT !.calls = Append(@, e), !.last = e,
                                !.pc = IF retry.attempt < retry.max THEN "sleep"
                                       ELSE "loop"]
             ELSE [retry EXCEPT !.calls = Append(@, e), !.out = Ended("raise", e),
                                !.pc = "finished"]
    /\ UNCHANGED <<ncalls, NotRetryVars>>

\* await asyncio.sleep(current_delay) (lines 79-80 and 94-95)
Sleep ==
    /\ retry.pc = "sleep"
    /\ retry' = [retry EXCEPT !.pc = "loop"]
    /\ UNCHANGED <<ncalls, NotRetryVars>>

\* raise last_exception (line 102)
RaiseLast ==
    /\ retry.pc = "raise_last"
    /\ retry' = [retry EXCEPT !.out = Ended("raise", retry.last), !.pc = "finished"]
    /\ UNCHANGED <<ncalls, NotRetryVars>>

\* the steps of the coroutine once it was called
RetrySteps == NextAttempt \/ Attempt \/ Sleep \/ RaiseLast

NextRetry ==
    \/ CallRetry
    \/ NextAttempt
    \/ Attempt
    \/ Sleep
    \/ RaiseLast

\* the event loop goes on running the coroutine, and func and sleep return
SpecRetry == InitOrder /\ [][NextRetry]_vars /\ WF_vars(RetrySteps)

\* an attempt after which the statement allows another one
MayRetryAfter(e) ==
    e.kind = "retryable" \/ (e.kind = "status" /\ e.code \in {408, 429, 500, 502, 503, 504})

LastCall == retry.calls[Len(retry.calls)]

RetryInv ==
    /\ Len(retry.calls) <= retry.max
    /\ \A i \in 1..(Len(retry.calls) - 1) : MayRetryAfter(retry.calls[i])
    /\ retry.pc = "finished" =>
          /\ Len(retry.calls) >= 1
          /\ retry.out.e = LastCall
          /\ retry.out.how = "return" <=> LastCall.kind = "ok"
          /\ retry.out.how = "raise" <=> LastCall.kind # "ok"
          /\ MayRetryAfter(LastCall) => Len(retry.calls) = retry.max

\* C30: retry_async calls func at most max_attempts times; another attempt
\* follows only an attempt that ended with a retryable exception or with a
\* status of 408, 429, 500, 502, 503 or 504; it returns the result of the
\* first attempt that succeeds, raises the exception of an attempt that ended
\* otherwise at once, raises the exception of the last attempt when all
\* max_attempts attempts failed, and every call of it ends
C30_BoundedRetry ==
    /\ []RetryInv
    /\ (retry.pc = "loop") ~> (retry.pc = "finished")

\* all attempts failed, the first with status 503 and the last with a
\* retryable exception, and that last exception was raised
C30_Witness ==
    /\ retry.pc = "finished"
    /\ retry.max = ApiRetryAttempts
    /\ Len(retry.calls) = retry.max
    /\ retry.calls[1] = Outcome("status", 503, 1)
    /\ retry.out = Ended("raise", Outcome("retryable", 0, retry.max))

=============================================================================
